---- MODULE Spec2Model ----
(***************************************************************************)
(* Intent detection, disambiguation and routing of the blockchain chat     *)
(* agent: the eight matchers of src/actions/api_tools_actions.py, the      *)
(* conflict resolution and the selection ladder of the CLI chat loop       *)
(* (src/actions/ollama_actions.py) and the ladder of the /ollama/chat      *)
(* endpoint (src/server/app.py).                                           *)
(*                                                                         *)
(* A text is a sequence of words; the string the program sees is the words *)
(* joined by single spaces.  Words are TLA+ strings, so substring tests    *)
(* and the structural patterns are computed on their characters.           *)
(***************************************************************************)
EXTENDS Integers, Sequences, FiniteSets, TLC

None == "None"

(***************************************************************************)
(* Strings                                                                 *)
(***************************************************************************)
CharAt(s, i) == SubSeq(s, i, i)

StartsWith(s, p) == Len(p) <= Len(s) /\ SubSeq(s, 1, Len(p)) = p

EndsWith(s, p) == Len(p) <= Len(s) /\ SubSeq(s, Len(s) - Len(p) + 1, Len(s)) = p

\* Python's  p in s
Contains(s, p) == \E i \in 1..(Len(s) - Len(p) + 1) : SubSeq(s, i, i + Len(p) - 1) = p

UpperCase == "ABCDEFGHIJKLMNOPQRSTUVWXYZ"

LowerCase == "abcdefghijklmnopqrstuvwxyz"

LowerChar(c) ==
    IF \E i \in 1..Len(UpperCase) : CharAt(UpperCase, i) = c
    THEN CharAt(LowerCase, CHOOSE i \in 1..Len(UpperCase) : CharAt(UpperCase, i) = c)
    ELSE c

\* str.lower()
RECURSIVE Lower(_)
Lower(s) == IF Len(s) = 0 THEN "" ELSE LowerChar(CharAt(s, 1)) \o Lower(SubSeq(s, 2, Len(s)))

UpperChar(c) ==
    IF \E i \in 1..Len(LowerCase) : CharAt(LowerCase, i) = c
    THEN CharAt(UpperCase, CHOOSE i \in 1..Len(LowerCase) : CharAt(LowerCase, i) = c)
    ELSE c

\* str.upper()
RECURSIVE Upper(_)
Upper(s) == IF Len(s) = 0 THEN "" ELSE UpperChar(CharAt(s, 1)) \o Upper(SubSeq(s, 2, Len(s)))

HexDigits == "0123456789abcdefABCDEF"

DecDigits == "0123456789"

IsHex(c) == Contains(HexDigits, c)

IsDigit(c) == Contains(DecDigits, c)

\* \w of the re module, for the characters the words are spelled with
IsWordChar(c) == IsDigit(c) \/ Contains(LowerCase, c) \/ Contains(UpperCase, c) \/ c = "_"

\* s repeated n times
RECURSIVE Repeat(_, _)
Repeat(s, n) == IF n = 0 THEN "" ELSE s \o Repeat(s, n - 1)

\* The pieces of s between its spaces
RECURSIVE Split(_)
Split(s) ==
    IF ~Contains(s, " ") THEN <<s>>
    ELSE LET i == CHOOSE k \in 1..Len(s) :
                     CharAt(s, k) = " " /\ \A j \in 1..(k - 1) : CharAt(s, j) # " "
         IN <<SubSeq(s, 1, i - 1)>> \o Split(SubSeq(s, i + 1, Len(s)))

\* A regular expression  (?:a1|a2|...) (?:b1|b2|...)  as the set of the strings it spells
Sp(A, B) == {a \o " " \o b : a \in A, b \in B}

Cat(A, B) == {a \o b : a \in A, b \in B}

(***************************************************************************)
(* The network directory                                                   *)
(***************************************************************************)
\* NETWORK_TO_CHAIN_ID.keys(), in the dictionary's order
NETWORK_ORDER ==
    <<"ethereum", "eth", "mainnet", "binance", "bsc", "polygon", "matic", "avalanche",
      "avax", "arbitrum", "optimism", "base", "fantom", "ftm", "aurora">>

NETWORK_TO_CHAIN_ID ==
    [n \in {NETWORK_ORDER[i] : i \in DOMAIN NETWORK_ORDER} |->
        CASE n \in {"ethereum", "eth", "mainnet"} -> "1"
          [] n \in {"binance", "bsc"} -> "56"
          [] n \in {"polygon", "matic"} -> "137"
          [] n \in {"avalanche", "avax"} -> "43114"
          [] n = "arbitrum" -> "42161"
          [] n = "optimism" -> "10"
          [] n = "base" -> "8453"
          [] n \in {"fantom", "ftm"} -> "250"
          [] n = "aurora" -> "1313161554"]

\* NETWORK_TO_CHAIN_ID.get(network.lower(), "1")
ChainIdOrDefault(network) ==
    IF Lower(network) \in DOMAIN NETWORK_TO_CHAIN_ID
    THEN NETWORK_TO_CHAIN_ID[Lower(network)] ELSE "1"

(***************************************************************************)
(* The inputs: a text is up to MaxFragments fragments of one topic         *)
(***************************************************************************)
MaxFragments == 3

AddrHexLen == 40

HashHexLen == 64

\* a well-formed EVM address and a well-formed transaction hash
ADDR1 == "0x" \o Repeat("a", AddrHexLen)

HASH1 == "0x" \o Repeat("b", HashHexLen)

\* a malformed identifier: one hex character more than an address has
LONG1 == "0x" \o Repeat("c", AddrHexLen + 1)

TokenTopic ==
    {<<ADDR1>>, <<"value">>, <<"details">>, <<"profit">>, <<"value", "and", "details">>,
     <<"token", "details">>, <<"detailed", "information">>, <<"profit", "loss">>,
     <<"price", "worth">>, <<"history">>}

RouteTopic ==
    {<<HASH1>>, <<"block", "18500000">>, <<"gas", "price">>, <<"polygon">>,
     <<"nft", "holdings">>, <<ADDR1>>, <<"token", "value">>, <<"tx", "history">>,
     <<"nft">>, <<"history">>, <<"hello">>}

RangeTopic ==
    {<<HASH1>>, <<ADDR1>>, <<"profit">>, <<"30", "days">>, <<"seven", "day">>,
     <<"Polygon">>, <<"base">>}

BlockTopic ==
    {<<HASH1>>, <<"Block", "12345">>, <<"block", "12345">>, <<"block">>, <<"18500000">>,
     <<"tx">>, <<LONG1>>}

Topics == {TokenTopic, RouteTopic, RangeTopic, BlockTopic}

Fragments == UNION Topics

Words == UNION {{f[i] : i \in DOMAIN f} : f \in Fragments}

RECURSIVE Flatten(_)
Flatten(fs) == IF fs = <<>> THEN <<>> ELSE Head(fs) \o Flatten(Tail(fs))

\* the sequences of n different fragments of the topic
Arrangements(topic, n) ==
    {fs \in [1..n -> topic] : \A i, j \in 1..n : i < j => fs[i] # fs[j]}

TextsOver(topic) ==
    UNION {{Flatten(fs) : fs \in Arrangements(topic, n)} : n \in 0..MaxFragments}

Texts == UNION {TextsOver(topic) : topic \in Topics}

\* len(text): the words and the single spaces between them
RECURSIVE TextLen(_)
TextLen(t) ==
    IF t = <<>> THEN 0
    ELSE Len(Head(t)) + (IF Len(t) > 1 THEN 1 ELSE 0) + TextLen(Tail(t))

(***************************************************************************)
(* Per-word tables (computed once from the spelling of the words)          *)
(***************************************************************************)
LowerOf == [w \in Words |-> Lower(w)]

\* text.lower(), word by word
LowerText(t) == [i \in DOMAIN t |-> LowerOf[t[i]]]

\* 0x[a-fA-F0-9]{n} matches w at position i
HexTokenAt(w, i, n) ==
    /\ i + n + 1 <= Len(w)
    /\ SubSeq(w, i, i + 1) = "0x"
    /\ \A k \in (i + 2)..(i + n + 1) : IsHex(CharAt(w, k))

\* re.search(r"0x[a-fA-F0-9]{n}", w).group(0), or None
FirstHexToken(w, n) ==
    IF \E i \in 1..Len(w) : HexTokenAt(w, i, n)
    THEN LET i == CHOOSE k \in 1..Len(w) :
                     HexTokenAt(w, k, n) /\ \A j \in 1..(k - 1) : ~HexTokenAt(w, j, n)
         IN SubSeq(w, i, i + n + 1)
    ELSE None

AddressOf == [w \in Words |-> FirstHexToken(w, AddrHexLen)]

HashOf == [w \in Words |-> FirstHexToken(w, HashHexLen)]

\* the digits w starts with: (\d+) matched at the start of w
LeadingDigits(w) ==
    LET n == Cardinality({k \in 1..Len(w) : \A j \in 1..k : IsDigit(CharAt(w, j))})
    IN SubSeq(w, 1, n)

LeadingDigitsOf == [w \in Words |-> LeadingDigits(w)]

\* \b\d{7,}\b matches w[i..j]: a whole run of digits, no word character on either side
MinBlockDigits == 7

BareNumberAt(w, i, j) ==
    /\ j - i + 1 >= MinBlockDigits
    /\ \A k \in i..j : IsDigit(CharAt(w, k))
    /\ (i = 1 \/ ~IsWordChar(CharAt(w, i - 1)))
    /\ (j = Len(w) \/ ~IsWordChar(CharAt(w, j + 1)))

BareNumber(w) ==
    IF \E i, j \in 1..Len(w) : BareNumberAt(w, i, j)
    THEN LET i == CHOOSE k \in 1..Len(w) :
                     /\ \E j \in 1..Len(w) : BareNumberAt(w, k, j)
                     /\ \A m \in 1..(k - 1) : \A j \in 1..Len(w) : ~BareNumberAt(w, m, j)
             j == CHOOSE k \in 1..Len(w) : BareNumberAt(w, i, k)
         IN SubSeq(w, i, j)
    ELSE None

BareNumberOf == [w \in Words |-> BareNumber(w)]

Aliases == {NETWORK_ORDER[i] : i \in DOMAIN NETWORK_ORDER}

\* the aliases a with  a in w.lower()
AliasesOf == [w \in Words |-> {a \in Aliases : Contains(Lower(w), a)}]

(***************************************************************************)
(* Searching a text for a literal phrase                                   *)
(***************************************************************************)
LowerWords == {LowerOf[w] : w \in Words}

\* A phrase (its pieces between spaces) that some sequence of words can spell:
\* the first piece ends a word, the last one starts a word, the others are words.
Spellable(p) ==
    IF Len(p) = 1 THEN \E w \in LowerWords : Contains(w, p[1])
    ELSE /\ \E w \in LowerWords : EndsWith(w, p[1])
         /\ \A k \in 2..(Len(p) - 1) : p[k] \in LowerWords
         /\ \E w \in LowerWords : StartsWith(w, p[Len(p)])

\* The strings of S as phrases; those no text over Words can contain are left out
Compile(S) == {p \in {Split(s) : s \in S} : Spellable(p)}

\* the substrings, the prefixes and the suffixes of the lowercased words
SubstringsOf ==
    [w \in LowerWords |-> {SubSeq(w, i, j) : i \in 1..Len(w), j \in 1..Len(w)}]

PrefixesOf == [w \in LowerWords |-> {SubSeq(w, 1, j) : j \in 0..Len(w)}]

SuffixesOf == [w \in LowerWords |-> {SubSeq(w, i, Len(w)) : i \in 1..(Len(w) + 1)}]

\* the phrase p occurs in the lowercased text lw, starting in word i
PhraseAt(p, lw, i) ==
    /\ i + Len(p) - 1 <= Len(lw)
    /\ IF Len(p) = 1 THEN p[1] \in SubstringsOf[lw[i]]
       ELSE /\ p[1] \in SuffixesOf[lw[i]]
            /\ \A k \in 2..(Len(p) - 1) : lw[i + k - 1] = p[k]
            /\ p[Len(p)] \in PrefixesOf[lw[i + Len(p) - 1]]

\* any(re.search(pattern, text.lower()) for pattern in patterns), and
\* any(keyword in text.lower() for keyword in keywords)
Search(P, lw) == \E p \in P : \E i \in DOMAIN lw : PhraseAt(p, lw, i)

\* sum(1 for keyword in keywords if keyword in text.lower())
Score(P, lw) == Cardinality({p \in P : \E i \in DOMAIN lw : PhraseAt(p, lw, i)})

(***************************************************************************)
(* Structural extraction shared by the matchers                            *)
(***************************************************************************)
\* the first element of the sequence s that is not None, else None
RECURSIVE FirstFound(_)
FirstFound(s) ==
    IF s = <<>> THEN None ELSE IF Head(s) # None THEN Head(s) ELSE FirstFound(Tail(s))

\* re.search(eth_address_pattern, text)
eth_address(t) == FirstFound([i \in DOMAIN t |-> AddressOf[t[i]]])

\* re.search(tx_hash_pattern, text)
tx_hash_of(t) == FirstFound([i \in DOMAIN t |-> HashOf[t[i]]])

\* the last alias of the directory that occurs, not the first
extract_network_LastAlias(t) ==
    LET found == UNION {AliasesOf[t[i]] : i \in DOMAIN t}
    IN IF found = {} THEN "ethereum"
       ELSE NETWORK_ORDER[CHOOSE i \in DOMAIN NETWORK_ORDER :
                /\ NETWORK_ORDER[i] \in found
                /\ \A j \in (i + 1)..Len(NETWORK_ORDER) : NETWORK_ORDER[j] \notin found]

\* for net in NETWORK_TO_CHAIN_ID.keys(): if net in text.lower(): ...; default "ethereum"
extract_network(t) ==
    LET found == UNION {AliasesOf[t[i]] : i \in DOMAIN t}
    IN IF found = {} THEN "ethereum"
       ELSE NETWORK_ORDER[CHOOSE i \in DOMAIN NETWORK_ORDER :
                /\ NETWORK_ORDER[i] \in found
                /\ \A j \in 1..(i - 1) : NETWORK_ORDER[j] \notin found]

\* (?:block|blk)(?:\s+(?:number|#|num|no))?(?:\s*[:=]\s*|\s+)(\d+) matched against the
\* text (not lowercased), the match starting in word i: the captured digits, or None.
\* The words hold no ':' and no '=', so the separator is always the space between words.
BlockPhraseAt(t, i) ==
    IF ~(EndsWith(t[i], "block") \/ EndsWith(t[i], "blk")) THEN None
    ELSE IF /\ i + 2 <= Len(t)
            /\ t[i + 1] \in {"number", "#", "num", "no"}
            /\ LeadingDigitsOf[t[i + 2]] # ""
         THEN LeadingDigitsOf[t[i + 2]]
    ELSE IF i + 1 <= Len(t) /\ LeadingDigitsOf[t[i + 1]] # ""
         THEN LeadingDigitsOf[t[i + 1]]
    ELSE None

\* block_number of detect_transaction_trace_query
extract_block_number(t) ==
    LET explicit == FirstFound([i \in DOMAIN t |-> BlockPhraseAt(t, i)])
    IN IF explicit # None THEN explicit
       ELSE FirstFound([i \in DOMAIN t |-> BareNumberOf[t[i]]])

(***************************************************************************)
(* The eight matchers (src/actions/api_tools_actions.py)                   *)
(***************************************************************************)
AskWords == {"what's the", "what is the", "current", "check", "get", "show"}

TokenWords == {"token", "erc20"}

gas_patterns ==
    Compile(Sp(AskWords, {"gas", "gas price", "gas fee"})
            \cup Sp({"gas"}, {"price", "fee", "cost"})
            \cup Sp({"how much"}, {"gas", "fee"})
            \cup {"transaction fee"}
            \cup {"network fee"})

\* the network of the text, whether or not a gas template matches
detect_gas_price_query_NoGuard(t) == extract_network(t)

detect_gas_price_query(t) ==
    IF ~Search(gas_patterns, LowerText(t)) THEN None ELSE extract_network(t)

nft_patterns ==
    Compile(Sp({"what", "which", "show", "get", "fetch", "check"},
               {"nft", "nfts", "non-fungible token", "non-fungible tokens"})
            \cup Sp({"nft", "nfts"}, {"holding", "holdings", "owned", "collection"})
            \cup Sp({"owned", "holding"}, {"nft", "nfts"})
            \cup Sp({"nft"}, {"collection", "portfolio", "gallery"}))

\* what nfts? (?:does|do) .* (?:have|own|hold): between the two spaces around .* lies
\* at least one whole word
nft_does_pattern(lw) ==
    \E i \in DOMAIN lw : \E m \in DOMAIN lw :
        /\ i + 4 <= m
        /\ EndsWith(lw[i], "what")
        /\ lw[i + 1] \in {"nft", "nfts"}
        /\ lw[i + 2] \in {"does", "do"}
        /\ \E b \in {"have", "own", "hold"} : StartsWith(lw[m], b)

detect_nft_holdings_query(t) ==
    LET lw == LowerText(t)
    IN IF ~(Search(nft_patterns, lw) \/ nft_does_pattern(lw)) THEN <<None, None>>
       ELSE <<eth_address(t), extract_network(t)>>

price_patterns ==
    Compile(Sp(AskWords, {"spot price", "token price", "price"})
            \cup Sp(Sp({"price"}, {"of", "for"}),
                    {"token", "tokens", "whitelisted token", "whitelisted tokens"})
            \cup Sp({"token"}, {"price", "value"})
            \cup Sp({"spot"}, {"price", "value"}))

currencies == <<"USD", "INR", "EUR", "GBP", "JPY", "CNY">>

extract_currency(t) ==
    LET lw == LowerText(t)
        found == {i \in DOMAIN currencies : Search({<<Lower(currencies[i])>>}, lw)}
    IN IF found = {} THEN "USD"
       ELSE currencies[CHOOSE i \in found : \A j \in found : i <= j]

detect_spot_price_query(t) ==
    IF ~Search(price_patterns, LowerText(t)) THEN <<None, None>>
    ELSE <<extract_currency(t), extract_network(t)>>

\* the token_details_patterns local to detect_token_value_query
value_exclusion_patterns ==
    Compile({"token details", "get token details"}
            \cup Sp(TokenWords, {"details", "info", "information"}))

token_value_patterns ==
    Compile(Sp(Sp(Sp(AskWords, {"value", "price", "worth"}), {"of"}), TokenWords)
            \cup Sp(TokenWords, {"value", "price", "worth"})
            \cup Sp(Sp({"how much is"}, TokenWords), {"worth"})
            \cup Sp({"value of"}, TokenWords)
            \cup {"current value", "token value", "token worth"})

value_keywords == Compile({"value", "worth", "price", "cost", "how much"})

detect_token_value_query(t) ==
    LET lw == LowerText(t)
        is_token_value_query == Search(token_value_patterns, lw)
        address_match == eth_address(t)
    IN IF Search(value_exclusion_patterns, lw) THEN <<None, None>>
       ELSE IF ~(is_token_value_query \/ address_match # None) THEN <<None, None>>
       ELSE IF ~is_token_value_query /\ address_match # None /\ ~Search(value_keywords, lw)
            THEN <<None, None>>
       ELSE <<address_match, extract_network(t)>>

token_details_patterns ==
    Compile(Sp(Cat(Cat({"what's", "what is", "what are", "tell me about", "show", "get",
                        "fetch", "check"}, {" ", " the "}), TokenWords),
               {"details", "info", "information"})
            \cup Sp(TokenWords, {"details", "info", "information"})
            \cup Sp(Sp({"details"}, {"of", "about", "for"}), TokenWords)
            \cup Sp(Sp({"information"}, {"on", "about"}), TokenWords)
            \cup {"token details", "get token details", "detailed information"})

details_keywords ==
    Compile({"details", "info", "information", "stats", "statistics", "data"})

\* a faulty variant: an address alone is enough, no keyword is asked for
detect_token_details_query_AnyAddress(t) ==
    LET address_match == eth_address(t)
    IN IF ~(Search(token_details_patterns, LowerText(t)) \/ address_match # None)
       THEN <<None, None>>
       ELSE <<address_match, extract_network(t)>>

detect_token_details_query(t) ==
    LET lw == LowerText(t)
        is_token_details_query == Search(token_details_patterns, lw)
        address_match == eth_address(t)
    IN IF ~(is_token_details_query \/ address_match # None) THEN <<None, None>>
       ELSE IF ~is_token_details_query /\ address_match # None
               /\ ~Search(details_keywords, lw)
            THEN <<None, None>>
       ELSE <<address_match, extract_network(t)>>

ProfitLossWords ==
    {"profit", "loss", "profitloss", "profit and loss", "profit/loss", "p&l", "roi", "return"}

profitloss_patterns ==
    Compile(Sp(AskWords, ProfitLossWords)
            \cup Sp(TokenWords, ProfitLossWords)
            \cup Sp(Sp(Sp({"how much"}, {"profit", "loss", "return"}), {"for", "from"}),
                    TokenWords)
            \cup Sp(Sp(ProfitLossWords, {"of", "for", "from"}), TokenWords)
            \cup Sp(ProfitLossWords, {"information", "data", "stats", "statistics"}))

profitloss_keywords ==
    Compile({"profit", "loss", "profitloss", "roi", "return", "p&l", "gain"})

DaySep == {"", " ", "-"}

\* timerange_patterns, in the dictionary's order
timerange_patterns ==
    <<[pattern |-> Compile(Cat(Cat({"1", "one"}, DaySep), {"day"})), value |-> "1day"],
      [pattern |-> Compile(Cat(Cat({"7", "seven"}, DaySep), {"day"})), value |-> "7day"],
      [pattern |-> Compile(Cat(Cat({"30", "thirty"}, DaySep), {"day"})), value |-> "30day"],
      [pattern |-> Compile(Cat(Cat({"90", "ninety"}, DaySep), {"day"})), value |-> "90day"],
      [pattern |-> Compile(Cat(Cat({"180", "one hundred eighty"}, DaySep), {"day"})),
       value |-> "180day"],
      [pattern |-> Compile(Cat(Cat({"365", "one year"}, DaySep), {"day"})),
       value |-> "365day"],
      [pattern |-> Compile(Cat(Cat({"all"}, DaySep), {"time"})), value |-> "all"]>>

\* the default, whatever the text says
extract_timerange_DefaultOnly(t) == "1day"

extract_timerange(t) ==
    LET lw == LowerText(t)
        found == {i \in DOMAIN timerange_patterns : Search(timerange_patterns[i].pattern, lw)}
    IN IF found = {} THEN "1day"
       ELSE timerange_patterns[CHOOSE i \in found : \A j \in found : i <= j].value

detect_token_profitloss_query(t) ==
    LET lw == LowerText(t)
        is_profitloss_query == Search(profitloss_patterns, lw)
        address_match == eth_address(t)
    IN IF ~(is_profitloss_query \/ address_match # None) THEN <<None, None, None>>
       ELSE IF ~is_profitloss_query /\ address_match # None
               /\ ~Search(profitloss_keywords, lw)
            THEN <<None, None, None>>
       ELSE <<address_match, extract_network(t), extract_timerange(t)>>

trace_patterns ==
    Compile(Sp({"what's the", "what is the", "get", "fetch", "show", "find"},
               {"transaction trace", "tx trace", "trace"})
            \cup Sp({"transaction", "tx"}, {"trace", "details", "information"})
            \cup Sp(Sp({"trace"}, {"of", "for"}), {"transaction", "tx"})
            \cup Sp(Sp({"trace", "details"}, {"of", "for", "about"}), {"transaction", "tx"})
            \cup Sp(Sp({"transaction"}, {"execution", "call"}), {"trace", "details"}))

detect_transaction_trace_query(t) ==
    LET is_trace_query == Search(trace_patterns, LowerText(t))
        tx_hash_match == tx_hash_of(t)
    IN IF ~(is_trace_query \/ tx_hash_match # None) THEN <<None, None, None>>
       ELSE <<tx_hash_match, extract_block_number(t), extract_network(t)>>

history_patterns ==
    Compile(Sp(Sp(Cat({"what's", "what is", "what are", "show", "get", "fetch", "check"},
                      {"", " the"}), {"transaction", "tx"}),
               {"history", "record", "log"})
            \cup Sp({"transaction", "tx"}, {"history", "record", "log"})
            \cup Sp(Sp({"history", "record", "log"}, {"of", "for"}),
                    {"transaction", "tx", "wallet", "address"})
            \cup Sp({"past", "recent", "previous"}, {"transaction", "tx"})
            \cup Sp(Sp(Sp({"what"}, {"transaction", "tx"}), {"has", "have"}),
                    {"wallet", "address"})
            \cup Sp(Sp({"list", "show"}, {"all", "recent"}), {"transaction", "tx"}))

history_keywords ==
    Compile({"history", "transactions", "tx", "record", "log", "activity"})

detect_transaction_history_query(t) ==
    LET lw == LowerText(t)
        is_history_query == Search(history_patterns, lw)
        address_match == eth_address(t)
    IN IF ~(is_history_query \/ address_match # None) THEN <<None, None>>
       ELSE IF ~is_history_query /\ address_match # None
               /\ ~Search(history_keywords, lw)
            THEN <<None, None>>
       ELSE <<address_match, extract_network(t)>>

(***************************************************************************)
(* The get-* actions (src/actions/api_tools_actions.py): what each hands   *)
(* to connection_manager.perform_action("api_tools", ...), or NoCall when  *)
(* it returns False before the call.  An absent keyword argument is None.  *)
(***************************************************************************)
NoCall == [action |-> None, params |-> <<>>]

\* the lookup with Ethereum as the default for an unknown network
resolve_chain_id_DefaultEthereum(network, chain_id) ==
    IF chain_id # None THEN chain_id
    ELSE IF network = None THEN "1" ELSE ChainIdOrDefault(network)

\* "If network name is provided, convert to chain_id ... default to Ethereum":
\* the chain id after the action's preamble, or None for an unknown network
resolve_chain_id(network, chain_id) ==
    IF network # None /\ chain_id = None
    THEN IF Lower(network) \in DOMAIN NETWORK_TO_CHAIN_ID
         THEN NETWORK_TO_CHAIN_ID[Lower(network)] ELSE None
    ELSE IF chain_id = None THEN "1" ELSE chain_id

get_gas_price(network, chain_id) ==
    LET cid == resolve_chain_id(network, chain_id)
    IN IF cid = None THEN NoCall
       ELSE [action |-> "get-gas-price", params |-> <<cid>>]

get_nft_holdings(wallet_address, network, chain_id) ==
    LET cid == resolve_chain_id(network, chain_id)
    IN IF cid = None \/ wallet_address = None THEN NoCall
       ELSE [action |-> "get-nft-holdings", params |-> <<wallet_address, cid>>]

get_spot_price(currency, chain_id) ==
    [action |-> "get-spot-price",
     params |-> <<Upper(IF currency = None THEN "USD" ELSE currency),
                  IF chain_id = None THEN "1" ELSE chain_id>>]

get_token_value(token_address, network, chain_id) ==
    LET cid == resolve_chain_id(network, chain_id)
    IN IF token_address = None \/ cid = None THEN NoCall
       ELSE [action |-> "get-token-value", params |-> <<token_address, cid>>]

get_token_details(token_address, network, chain_id) ==
    LET cid == resolve_chain_id(network, chain_id)
    IN IF token_address = None \/ cid = None THEN NoCall
       ELSE [action |-> "get-token-details", params |-> <<token_address, cid>>]

valid_timeranges == {"1day", "7day", "30day", "90day", "180day", "365day", "all"}

get_token_profitloss(token_address, network, chain_id, timerange) ==
    LET cid == resolve_chain_id(network, chain_id)
        tr == IF timerange \in valid_timeranges THEN timerange ELSE "1day"
    IN IF token_address = None \/ cid = None THEN NoCall
       ELSE [action |-> "get-token-profitloss", params |-> <<token_address, cid, tr>>]

\* the chain id is resolved and logged, and left out of params
get_transaction_trace(tx_hash, block_number, network, chain_id) ==
    LET cid == resolve_chain_id(network, chain_id)
    IN IF tx_hash = None \/ block_number = None \/ cid = None THEN NoCall
       ELSE [action |-> "get-transaction-trace", params |-> <<tx_hash, block_number>>]

get_transaction_history(wallet_address, network, chain_id) ==
    LET cid == resolve_chain_id(network, chain_id)
    IN IF wallet_address = None \/ cid = None THEN NoCall
       ELSE [action |-> "get-transaction-history", params |-> <<wallet_address, cid>>]

\* the chain id the connection works with (src/connections/api_tools_connection.py):
\* the one among the parameters, "1" when the call carries none
FetchChainId(call) ==
    CASE call.action = "get-gas-price" -> call.params[1]
      [] call.action = "get-transaction-trace" ->
            IF Len(call.params) >= 3 THEN call.params[3] ELSE "1"
      [] OTHER -> call.params[2]

(***************************************************************************)
(* The CLI chat loop (src/actions/ollama_actions.py): detection,           *)
(* conflict resolution, selection                                          *)
(***************************************************************************)
\* the sixteen locals of lines 72-94
Detect(t) ==
    LET nft == detect_nft_holdings_query(t)
        spot == detect_spot_price_query(t)
        val == detect_token_value_query(t)
        det == detect_token_details_query(t)
        pl == detect_token_profitloss_query(t)
        tr == detect_transaction_trace_query(t)
        hist == detect_transaction_history_query(t)
    IN [network |-> detect_gas_price_query(t),
        nft_wallet_address |-> nft[1], nft_network |-> nft[2],
        currency |-> spot[1], spot_network |-> spot[2],
        token_address |-> val[1], token_network |-> val[2],
        details_token_address |-> det[1], details_token_network |-> det[2],
        profitloss_token_address |-> pl[1], profitloss_token_network |-> pl[2],
        profitloss_timerange |-> pl[3],
        tx_hash |-> tr[1], block_number |-> tr[2], tx_network |-> tr[3],
        wallet_address |-> hist[1], history_network |-> hist[2]]

value_score(t) == Score(value_keywords, LowerText(t))

details_score(t) == Score(details_keywords, LowerText(t))

profitloss_score(t) == Score(profitloss_keywords, LowerText(t))

ClearValue(d) == [d EXCEPT !.token_address = None, !.token_network = None]

\* every result about the address is reset, the history result with the details result
ClearDetails_AndHistory(d) ==
    [d EXCEPT !.details_token_address = None, !.details_token_network = None,
              !.wallet_address = None, !.history_network = None]

ClearDetails(d) ==
    [d EXCEPT !.details_token_address = None, !.details_token_network = None]

\* a faulty variant: the timerange is left behind
ClearProfitLoss_KeepTimerange(d) ==
    [d EXCEPT !.profitloss_token_address = None, !.profitloss_token_network = None]

ClearProfitLoss(d) ==
    [d EXCEPT !.profitloss_token_address = None, !.profitloss_token_network = None,
              !.profitloss_timerange = None]

\* a faulty variant: a tie goes to the details
ResolveValueDetails_TieToDetails(d, t) ==
    IF /\ d.token_address # None
       /\ d.details_token_address # None
       /\ d.token_address = d.details_token_address
    THEN IF details_score(t) >= value_score(t) THEN ClearValue(d) ELSE ClearDetails(d)
    ELSE d

\* lines 96-122
ResolveValueDetails(d, t) ==
    IF /\ d.token_address # None
       /\ d.details_token_address # None
       /\ d.token_address = d.details_token_address
    THEN IF details_score(t) > value_score(t) THEN ClearValue(d)
         ELSE IF value_score(t) > details_score(t) THEN ClearDetails(d)
         ELSE ClearDetails(d)
    ELSE d

\* a faulty variant: the comparison is turned round
ResolveValueProfitLoss_LowerWins(d, t) ==
    IF /\ d.profitloss_token_address # None
       /\ d.token_address # None
       /\ d.token_address = d.profitloss_token_address
    THEN IF profitloss_score(t) < value_score(t) THEN ClearValue(d)
         ELSE ClearProfitLoss(d)
    ELSE d

\* lines 125-145
ResolveValueProfitLoss(d, t) ==
    IF /\ d.profitloss_token_address # None
       /\ d.token_address # None
       /\ d.token_address = d.profitloss_token_address
    THEN IF profitloss_score(t) > value_score(t) THEN ClearValue(d)
         ELSE ClearProfitLoss(d)
    ELSE d

\* a faulty variant: the third comparison is left out
ResolveDetailsProfitLoss_Skipped(d, t) == d

\* lines 125-127, 147-162
ResolveDetailsProfitLoss(d, t) ==
    IF /\ d.profitloss_token_address # None
       /\ d.details_token_address # None
       /\ d.details_token_address = d.profitloss_token_address
    THEN IF profitloss_score(t) > details_score(t) THEN ClearDetails(d)
         ELSE ClearProfitLoss(d)
    ELSE d

\* the locals at lines 95, 123, 146 and 163: each resolution step works on the
\* locals the step before it left
AfterValueDetails(st, t) == Append(st, ResolveValueDetails(st[Len(st)], t))

AfterValueProfitLoss(st, t) == Append(st, ResolveValueProfitLoss(st[Len(st)], t))

AfterDetailsProfitLoss(st, t) == Append(st, ResolveDetailsProfitLoss(st[Len(st)], t))

Disambiguate(t) ==
    AfterDetailsProfitLoss(AfterValueProfitLoss(AfterValueDetails(<<Detect(t)>>, t), t), t)

\* the if/elif ladder of lines 176-665, in its order: the position of the rung taken, or 0
CliRungs ==
    <<"gas", "nft", "spot", "value", "details", "profitloss", "trace", "history">>

CliUsable(d, k) ==
    CASE k = "gas" -> d.network # None
      [] k = "nft" -> d.nft_wallet_address # None
      [] k = "spot" -> d.currency # None
      [] k = "value" -> d.token_address # None
      [] k = "details" -> d.details_token_address # None
      [] k = "profitloss" -> d.profitloss_token_address # None
      [] k = "trace" -> d.tx_hash # None /\ d.block_number # None
      [] k = "history" -> d.wallet_address # None

\* the least position of the set S, or 0 when there is none
Least(S) == IF S = {} THEN 0 ELSE CHOOSE i \in S : \A j \in S : i <= j

CliSelect(d) == Least({i \in DOMAIN CliRungs : CliUsable(d, CliRungs[i])})

\* execute_action(agent, "get-...", ...) of the rung taken
CliCall(d, k) ==
    CASE k = "gas" -> get_gas_price(d.network, None)
      [] k = "nft" -> get_nft_holdings(d.nft_wallet_address, d.nft_network, None)
      [] k = "spot" -> get_spot_price(d.currency, ChainIdOrDefault(d.spot_network))
      [] k = "value" ->
            get_token_value(d.token_address, None, ChainIdOrDefault(d.token_network))
      [] k = "details" ->
            get_token_details(d.details_token_address, None,
                              ChainIdOrDefault(d.details_token_network))
      [] k = "profitloss" ->
            get_token_profitloss(d.profitloss_token_address, None,
                                 ChainIdOrDefault(d.profitloss_token_network),
                                 d.profitloss_timerange)
      [] k = "trace" ->
            get_transaction_trace(d.tx_hash, d.block_number, None,
                                  ChainIdOrDefault(d.tx_network))
      [] k = "history" ->
            get_transaction_history(d.wallet_address, None,
                                    ChainIdOrDefault(d.history_network))

\* the calls of perform_action the rung makes: none when the action returns early
CliCalls(d, k) == IF CliCall(d, k) = NoCall THEN <<>> ELSE <<CliCall(d, k)>>

(***************************************************************************)
(* The server's ladders (src/server/app.py): each rung runs its matcher on *)
(* the raw message; there is no conflict resolution                        *)
(***************************************************************************)
\* /ollama/chat, rungs 1-8
ChatRungs ==
    <<"trace", "gas", "nft", "value", "details", "profitloss", "spot", "history">>

\* /api-tools/process
ProcessRungs == <<"trace", "gas", "nft", "value", "details">>

\* the condition of rung k, on the results d of the matchers for the message
ServerUsable(d, k) ==
    CASE k = "trace" -> d.tx_hash # None /\ d.block_number # None
      [] k = "gas" -> d.network # None
      [] k = "nft" -> d.nft_wallet_address # None
      [] k = "value" -> d.token_address # None
      [] k = "details" -> d.details_token_address # None
      [] k = "profitloss" -> d.profitloss_token_address # None
      [] k = "spot" -> d.currency # None
      [] k = "history" -> d.wallet_address # None

\* params of connection_manager.perform_action in rung k
ServerCall(d, k) ==
    CASE k = "trace" ->
            [action |-> "get-transaction-trace",
             params |-> <<d.tx_hash, d.block_number, ChainIdOrDefault(d.tx_network)>>]
      [] k = "gas" ->
            [action |-> "get-gas-price", params |-> <<ChainIdOrDefault(d.network)>>]
      [] k = "nft" ->
            [action |-> "get-nft-holdings",
             params |-> <<d.nft_wallet_address, ChainIdOrDefault(d.nft_network)>>]
      [] k = "value" ->
            [action |-> "get-token-value",
             params |-> <<d.token_address, ChainIdOrDefault(d.token_network)>>]
      [] k = "details" ->
            [action |-> "get-token-details",
             params |-> <<d.details_token_address,
                          ChainIdOrDefault(d.details_token_network)>>]
      [] k = "profitloss" ->
            [action |-> "get-token-profitloss",
             params |-> <<d.profitloss_token_address,
                          ChainIdOrDefault(d.profitloss_token_network),
                          d.profitloss_timerange>>]
      [] k = "spot" ->
            [action |-> "get-spot-price",
             params |-> <<d.currency, ChainIdOrDefault(d.spot_network)>>]
      [] k = "history" ->
            [action |-> "get-transaction-history",
             params |-> <<d.wallet_address, ChainIdOrDefault(d.history_network)>>]

\* the first usable rung of ladder after position from, or 0
NextRung(ladder, d, from) ==
    Least({i \in DOMAIN ladder : i > from /\ ServerUsable(d, ladder[i])})

(***************************************************************************)
(* State                                                                   *)
(***************************************************************************)
VARIABLES
    pc,        \* where the handler of the current message stands
    caller,    \* "cli", "chat", "process", "trace", "action": who handles the message
    message,   \* the text being handled
    stages,    \* the detection locals: on the server as the matchers return them,
               \* in the CLI before and after each resolution step
    rung,      \* the position in its ladder of the rung taken, 0 for none
    calls,     \* the calls of connection_manager.perform_action("api_tools") so far
    result,    \* what the last call returned
    kwargs,    \* the keyword arguments of a get-* action called by name
    outcome    \* how the handling of the message ended

vars == <<pc, caller, message, stages, rung, calls, result, kwargs, outcome>>

(***************************************************************************)
(* The CLI chat session (src/actions/ollama_actions.py, ollama_chat): the  *)
(* chat history and the locals of the function that outlive a turn of its  *)
(* while loop.  A text is known by the turn it was made in.                *)
(***************************************************************************)
VARIABLES
    spc,                 \* where the chat loop stands: "input", "fetch", "chat", "ended"
    turn,                \* the number of user inputs taken so far
    intent,              \* the rung of the ladder this turn's input selects
    reply,               \* what the chat action returned in this turn
    ended,               \* how the turn ended
    chat_history,        \* the list of messages, in order
    template_response,   \* the local of that name: the turn it was built in
    corrected_response,  \* the local of that name: the reply and the template in it
    nft_result,          \* the local of that name
    prompt               \* the prompt of the last generate request

svars == <<spc, turn, intent, reply, ended, chat_history, template_response,
           corrected_response, nft_result, prompt>>

\* a local that was never assigned: a template, a response, a result of an action
Unbound == 0

UnboundResponse == [turn |-> 0, template |-> 0]

UnboundResult == [value |-> "unbound", turn |-> 0, assets |-> FALSE]

\* the action returned False
FalseResult == [value |-> "False", turn |-> 0, assets |-> FALSE]

\* line 61: the personality directive and the system prompt
Personality == [role |-> "system", turn |-> 0, template |-> 0]

\* lines 58-61
SessionStart ==
    /\ spc = "input"
    /\ turn = 0
    /\ intent = None
    /\ reply = None
    /\ ended = None
    /\ chat_history = <<Personality>>
    /\ template_response = Unbound
    /\ corrected_response = UnboundResponse
    /\ nft_result = UnboundResult
    /\ prompt = <<>>

(***************************************************************************)
(* The agent loop of the server (src/server/app.py, ServerState)           *)
(***************************************************************************)
\* the threads start_agent_loop may create
MaxStarts == 3

VARIABLES
    agent,          \* cli.agent: whether an agent is loaded
    agent_running,  \* ServerState.agent_running
    stop_event,     \* ServerState._stop_event: whether it is set
    agent_task,     \* ServerState.agent_task: the thread last created, 0 for None
    threads,        \* where each thread of _run_agent_loop stands
    lpc,            \* where the event loop stands: "idle", or "joining" in stop_agent_loop
    server_reply    \* how the last start or stop request ended

lvars == <<agent, agent_running, stop_event, agent_task, threads, lpc, server_reply>>

\* ServerState.__init__, lines 30-34
LoopStart ==
    /\ agent = FALSE
    /\ agent_running = FALSE
    /\ stop_event = FALSE
    /\ agent_task = 0
    /\ threads = [t \in 1..MaxStarts |-> "unborn"]
    /\ lpc = "idle"
    /\ server_reply = None

(***************************************************************************)
(* The connection to the 1inch API                                         *)
(* (src/connections/api_tools_connection.py, APIToolsConnection)           *)
(***************************************************************************)
VARIABLES
    api_key,    \* APIToolsConnection.api_key
    env_key,    \* os.getenv("ONEINCH_API_KEY", "")
    gpc,        \* where get_gas_price stands: "idle", "request", "returned"
    attempts,   \* the invocations of get_gas_price within the current call
    sent_keys,  \* the keys of the requests sent within the current call, in order
    returned,   \* what the current call returned
    log         \* the records the connection has logged

cvars == <<api_key, env_key, gpc, attempts, sent_keys, returned, log>>

\* before the connection is made
ConnStart ==
    /\ api_key = ""
    /\ env_key = ""
    /\ gpc = "idle"
    /\ attempts = 0
    /\ sent_keys = <<>>
    /\ returned = None
    /\ log = {}

\* the state outside the handlers of messages
others == <<svars, lvars, cvars>>

OthersStart == SessionStart /\ LoopStart /\ ConnStart

\* what perform_action returns: JSON data, an {"error": ...} payload (both truthy),
\* or None / empty JSON (falsy)
FetchResults == {"data", "error", "empty"}

Truthy(r) == r \in {"data", "error"}

\* no action has been called by name
NoArgs == [action |-> None, network |-> None, chain_id |-> None, timerange |-> None]

Init ==
    /\ pc = "idle"
    /\ caller = None
    /\ message = <<>>
    /\ stages = <<>>
    /\ rung = 0
    /\ calls = <<>>
    /\ result = None
    /\ kwargs = NoArgs
    /\ outcome = None
    /\ OthersStart

Ready == pc = "idle"

\* ollama_chat, lines 64-753, up to the fetch; connected is
\* "api_tools" in agent.connection_manager.connections
CliInput ==
    /\ Ready
    /\ message' \in Texts
    /\ stages' = Disambiguate(message')
    /\ \E connected \in BOOLEAN :
          rung' = IF connected THEN CliSelect(stages'[4]) ELSE 0
    /\ calls' = IF rung' = 0 THEN <<>> ELSE CliCalls(stages'[4], CliRungs[rung'])
    /\ pc' = IF calls' = <<>> THEN "cli_chat" ELSE "cli_fetch"
    /\ caller' = "cli"
    /\ result' = None
    /\ kwargs' = NoArgs
    /\ outcome' = None
    /\ UNCHANGED others

\* the action returns the result, or False on a falsy result or an error payload
CliFetchReturn ==
    /\ pc = "cli_fetch"
    /\ result' \in FetchResults
    /\ pc' = "cli_chat"
    /\ UNCHANGED <<caller, kwargs, message, stages, rung, calls, outcome>>
    /\ UNCHANGED others

\* lines 755-944: the chat completion, with the fetched data in the history or without
CliChatReturn ==
    /\ pc = "cli_chat"
    /\ pc' = "done"
    /\ outcome' = IF result = "data" THEN "chat_augmented" ELSE "chat_plain"
    /\ UNCHANGED <<caller, kwargs, message, stages, rung, calls, result>>
    /\ UNCHANGED others

\* POST /ollama/chat, lines 241-417, up to the first fetch
ChatRequest ==
    /\ Ready
    /\ message' \in Texts
    /\ stages' = <<Detect(message')>>
    /\ rung' = NextRung(ChatRungs, stages'[1], 0)
    /\ calls' = IF rung' = 0 THEN <<>> ELSE <<ServerCall(stages'[1], ChatRungs[rung'])>>
    /\ pc' = IF rung' = 0 THEN "done" ELSE "chat_fetch"
    /\ outcome' = IF rung' = 0 THEN "ollama" ELSE None
    /\ caller' = "chat"
    /\ result' = None
    /\ kwargs' = NoArgs
    /\ UNCHANGED others

\* "if result: return ..."; otherwise the ladder goes on with the next rung
ChatFetchReturn ==
    /\ pc = "chat_fetch"
    /\ result' \in FetchResults
    /\ IF Truthy(result')
       THEN /\ pc' = "done"
            /\ outcome' = "routed"
            /\ UNCHANGED <<rung, calls>>
       ELSE /\ rung' = NextRung(ChatRungs, stages[1], rung)
            /\ calls' = IF rung' = 0 THEN calls
                        ELSE Append(calls, ServerCall(stages[1], ChatRungs[rung']))
            /\ pc' = IF rung' = 0 THEN "done" ELSE "chat_fetch"
            /\ outcome' = IF rung' = 0 THEN "ollama" ELSE None
    /\ UNCHANGED <<caller, kwargs, message, stages>>
    /\ UNCHANGED others

\* POST /api-tools/process, lines 597-715
ProcessRequest ==
    /\ Ready
    /\ message' \in Texts
    /\ stages' = <<Detect(message')>>
    /\ rung' = NextRung(ProcessRungs, stages'[1], 0)
    /\ calls' = IF rung' = 0 THEN <<>> ELSE <<ServerCall(stages'[1], ProcessRungs[rung'])>>
    /\ pc' = IF rung' = 0 THEN "done" ELSE "process_fetch"
    /\ outcome' = IF rung' = 0 THEN "no_tool" ELSE None
    /\ caller' = "process"
    /\ result' = None
    /\ kwargs' = NoArgs
    /\ UNCHANGED others

\* the result is returned whatever it is
ProcessFetchReturn ==
    /\ pc = "process_fetch"
    /\ result' \in FetchResults
    /\ pc' = "done"
    /\ outcome' = "routed"
    /\ UNCHANGED <<caller, kwargs, message, stages, rung, calls>>
    /\ UNCHANGED others

\* len(request.params[0]) > 50 marks a natural language query
NaturalLanguageMinLen == 50

\* POST /api-tools/transaction-trace with one parameter, lines 734-781
TraceRequestQuery ==
    /\ Ready
    /\ message' \in Texts
    /\ stages' = IF TextLen(message') > NaturalLanguageMinLen
                 THEN <<Detect(message')>> ELSE <<>>
    /\ calls' = IF stages' # <<>>
                THEN IF ServerUsable(stages'[1], "trace")
                     THEN <<ServerCall(stages'[1], "trace")>> ELSE <<>>
                ELSE <<[action |-> "get-transaction-trace", params |-> <<None, None, "1">>]>>
    /\ pc' = IF calls' = <<>> THEN "done" ELSE "trace_fetch"
    /\ outcome' = IF calls' = <<>> THEN "http_error" ELSE None
    /\ caller' = "trace"
    /\ rung' = 0
    /\ result' = None
    /\ kwargs' = NoArgs
    /\ UNCHANGED others

\* the same endpoint with [tx_hash, block_number] or [tx_hash, block_number, network]
DirectHashes == {HASH1, ""}

DirectBlocks == {"18500000", ""}

DirectNetworks ==
    {None, "Base", "solana"} \cup {NETWORK_ORDER[i] : i \in DOMAIN NETWORK_ORDER}

TraceRequestDirect ==
    /\ Ready
    /\ \E h \in DirectHashes, b \in DirectBlocks, n \in DirectNetworks :
          calls' = <<[action |-> "get-transaction-trace",
                      params |-> <<h, b, IF n = None THEN "1" ELSE ChainIdOrDefault(n)>>]>>
    /\ pc' = "trace_fetch"
    /\ caller' = "trace"
    /\ message' = <<>>
    /\ stages' = <<>>
    /\ rung' = 0
    /\ result' = None
    /\ kwargs' = NoArgs
    /\ outcome' = None
    /\ UNCHANGED others

\* "if not result: raise HTTPException(500)"
TraceFetchReturn ==
    /\ pc = "trace_fetch"
    /\ result' \in FetchResults
    /\ pc' = "done"
    /\ outcome' = IF Truthy(result') THEN "routed" ELSE "http_error"
    /\ UNCHANGED <<caller, kwargs, message, stages, rung, calls>>
    /\ UNCHANGED others

\* the get-* actions, by the names they are registered under
ActionNames ==
    {"get-gas-price", "get-nft-holdings", "get-spot-price", "get-token-value",
     "get-token-details", "get-token-profitloss", "get-transaction-trace",
     "get-transaction-history"}

DirectChainIds == {None, "137"}

DirectTimeranges == {None, "30day", "2weeks"}

\* the action registered under k.action, called with the keyword arguments k and a
\* subject of the kind it asks for; get_spot_price reads no network argument
RegisteredAction(k) ==
    CASE k.action = "get-gas-price" -> get_gas_price(k.network, k.chain_id)
      [] k.action = "get-nft-holdings" -> get_nft_holdings(ADDR1, k.network, k.chain_id)
      [] k.action = "get-spot-price" -> get_spot_price(None, k.chain_id)
      [] k.action = "get-token-value" -> get_token_value(ADDR1, k.network, k.chain_id)
      [] k.action = "get-token-details" -> get_token_details(ADDR1, k.network, k.chain_id)
      [] k.action = "get-token-profitloss" ->
            get_token_profitloss(ADDR1, k.network, k.chain_id, k.timerange)
      [] k.action = "get-transaction-trace" ->
            get_transaction_trace(HASH1, "18500000", k.network, k.chain_id)
      [] k.action = "get-transaction-history" ->
            get_transaction_history(ADDR1, k.network, k.chain_id)

\* a get-* action called by name with keyword arguments, up to the fetch; without a
\* fetch the action has returned False
ActionCall ==
    /\ Ready
    /\ kwargs' \in [action : ActionNames, network : DirectNetworks,
                    chain_id : DirectChainIds, timerange : DirectTimeranges]
    /\ calls' = IF RegisteredAction(kwargs') = NoCall THEN <<>>
                ELSE <<RegisteredAction(kwargs')>>
    /\ pc' = IF calls' = <<>> THEN "done" ELSE "action_fetch"
    /\ outcome' = IF calls' = <<>> THEN "failed" ELSE None
    /\ caller' = "action"
    /\ message' = <<>>
    /\ stages' = <<>>
    /\ rung' = 0
    /\ result' = None
    /\ UNCHANGED others

\* "if result and 'error' not in result: ... return result" else "return False"
ActionFetchReturn ==
    /\ pc = "action_fetch"
    /\ result' \in FetchResults
    /\ pc' = "done"
    /\ outcome' = IF result' = "data" THEN "returned" ELSE "failed"
    /\ UNCHANGED <<caller, kwargs, message, stages, rung, calls>>
    /\ UNCHANGED others

\* the loop takes the next input / the server takes the next request: the locals of
\* the handler are fresh
NextMessage ==
    /\ pc = "done"
    /\ pc' = "idle"
    /\ caller' = None
    /\ message' = <<>>
    /\ stages' = <<>>
    /\ rung' = 0
    /\ calls' = <<>>
    /\ result' = None
    /\ kwargs' = NoArgs
    /\ outcome' = None
    /\ UNCHANGED others

Next ==
    \/ CliInput
    \/ CliFetchReturn
    \/ CliChatReturn
    \/ ChatRequest
    \/ ChatFetchReturn
    \/ ProcessRequest
    \/ ProcessFetchReturn
    \/ TraceRequestQuery
    \/ TraceRequestDirect
    \/ TraceFetchReturn
    \/ ActionCall
    \/ ActionFetchReturn
    \/ NextMessage

Spec == Init /\ [][Next]_<<vars, others>>

(***************************************************************************)
(* Properties                                                              *)
(***************************************************************************)
\* the stages of the CLI's conflict resolution
Detected == stages[1]

AfterVD == stages[2]

AfterVP == stages[3]

Resolved == stages[4]

RungAction(k) ==
    CASE k = "gas" -> "get-gas-price"
      [] k = "nft" -> "get-nft-holdings"
      [] k = "spot" -> "get-spot-price"
      [] k = "value" -> "get-token-value"
      [] k = "details" -> "get-token-details"
      [] k = "profitloss" -> "get-token-profitloss"
      [] k = "trace" -> "get-transaction-trace"
      [] k = "history" -> "get-transaction-history"

\* C1: at most one fetch call is issued per message, in the CLI chat loop and in
\* /ollama/chat alike, whatever the fetch returns
C1_AtMostOneFetch == caller \in {"cli", "chat"} => Len(calls) <= 1

\* the priority order the specification gives
PriorityOrder ==
    <<"trace", "gas", "nft", "value", "details", "profitloss", "spot", "history">>

FirstInPriorityOrder(d) ==
    LET usable == {i \in DOMAIN PriorityOrder : CliUsable(d, PriorityOrder[i])}
    IN IF usable = {} THEN None
       ELSE PriorityOrder[CHOOSE i \in usable : \A j \in usable : i <= j]

\* C2: the intent forwarded is the first usable result, after conflict resolution, in
\* the order trace, gas, nft, token-value, token-details, profit-loss, spot-price,
\* history
C2_ForwardedIsFirstInPriorityOrder ==
    (caller \in {"cli", "chat"} /\ calls # <<>>) =>
        calls[1].action = RungAction(FirstInPriorityOrder(Disambiguate(message)[4]))

ValueProfitLossTie ==
    /\ caller = "cli"
    /\ AfterVD.token_address # None
    /\ AfterVD.token_address = AfterVD.profitloss_token_address
    /\ value_score(message) = profitloss_score(message)

DetailsProfitLossTie ==
    /\ caller = "cli"
    /\ AfterVP.details_token_address # None
    /\ AfterVP.details_token_address = AfterVP.profitloss_token_address
    /\ details_score(message) = profitloss_score(message)

\* C3: when Profit-Loss and Token-Value (or Profit-Loss and Token-Details) carry the
\* same address and their scores are equal, Profit-Loss survives and the other result
\* is cleared
C3_TieKeepsProfitLoss ==
    /\ ValueProfitLossTie =>
          /\ AfterVP.profitloss_token_address = AfterVD.profitloss_token_address
          /\ AfterVP.token_address = None
    /\ DetailsProfitLossTie =>
          /\ Resolved.profitloss_token_address = AfterVP.profitloss_token_address
          /\ Resolved.details_token_address = None

ValueKept(a, b) ==
    b.token_address = a.token_address /\ b.token_network = a.token_network

ValueCleared(b) == b.token_address = None /\ b.token_network = None

DetailsKept(a, b) ==
    /\ b.details_token_address = a.details_token_address
    /\ b.details_token_network = a.details_token_network

DetailsCleared(b) == b.details_token_address = None /\ b.details_token_network = None

ProfitLossKept(a, b) ==
    /\ b.profitloss_token_address = a.profitloss_token_address
    /\ b.profitloss_token_network = a.profitloss_token_network
    /\ b.profitloss_timerange = a.profitloss_timerange

ProfitLossCleared(b) ==
    /\ b.profitloss_token_address = None
    /\ b.profitloss_token_network = None
    /\ b.profitloss_timerange = None

ValueDetailsShared ==
    /\ caller = "cli"
    /\ Detected.token_address # None
    /\ Detected.token_address = Detected.details_token_address

ValueProfitLossShared ==
    /\ caller = "cli"
    /\ AfterVD.token_address # None
    /\ AfterVD.token_address = AfterVD.profitloss_token_address

DetailsProfitLossShared ==
    /\ caller = "cli"
    /\ AfterVP.details_token_address # None
    /\ AfterVP.details_token_address = AfterVP.profitloss_token_address

\* C4: for each of the pairs Value/Details, Value/Profit-Loss, Details/Profit-Loss with
\* equal non-null subjects and different scores, the result with the higher score
\* survives and the loser's subject and network (and, for Profit-Loss, its timerange)
\* become absent
C4_HigherScoreSurvives ==
    /\ (ValueDetailsShared /\ value_score(message) > details_score(message)) =>
          ValueKept(Detected, AfterVD) /\ DetailsCleared(AfterVD)
    /\ (ValueDetailsShared /\ details_score(message) > value_score(message)) =>
          DetailsKept(Detected, AfterVD) /\ ValueCleared(AfterVD)
    /\ (ValueProfitLossShared /\ value_score(message) > profitloss_score(message)) =>
          ValueKept(AfterVD, AfterVP) /\ ProfitLossCleared(AfterVP)
    /\ (ValueProfitLossShared /\ profitloss_score(message) > value_score(message)) =>
          ProfitLossKept(AfterVD, AfterVP) /\ ValueCleared(AfterVP)
    /\ (DetailsProfitLossShared /\ details_score(message) > profitloss_score(message)) =>
          DetailsKept(AfterVP, Resolved) /\ ProfitLossCleared(Resolved)
    /\ (DetailsProfitLossShared /\ profitloss_score(message) > details_score(message)) =>
          ProfitLossKept(AfterVP, Resolved) /\ DetailsCleared(Resolved)

\* a Profit-Loss result with a timerange loses to a Token-Value result of a higher score
C4_ProfitLossLoses ==
    /\ ValueProfitLossShared
    /\ value_score(message) > profitloss_score(message)
    /\ AfterVD.profitloss_timerange # None

\* C5: when Token-Value and Token-Details carry the same address and their scores are
\* equal, Token-Value is kept and Token-Details is cleared
C5_TieKeepsValue ==
    (ValueDetailsShared /\ value_score(message) = details_score(message)) =>
        ValueKept(Detected, AfterVD) /\ DetailsCleared(AfterVD)

\* a Value/Details tie with both scores positive
C5_ValueDetailsTie ==
    /\ ValueDetailsShared
    /\ value_score(message) = details_score(message)
    /\ value_score(message) > 0

Subjects(d) == <<d.token_address, d.details_token_address, d.profitloss_token_address>>

Sharing(d, a) == {i \in 1..3 : Subjects(d)[i] = a}

\* C6: after the three pairwise steps, among the token-value, token-details and
\* profit-loss results that shared one address exactly one still carries a subject
C6_ExactlyOneSurvivor ==
    caller = "cli" =>
        \A a \in {Subjects(Detected)[i] : i \in 1..3} \ {None} :
            Cardinality(Sharing(Detected, a)) >= 2 =>
                Cardinality({i \in Sharing(Detected, a) : Subjects(Resolved)[i] # None}) = 1

\* all three results matched the same address
C6_TripleOverlap ==
    /\ caller = "cli"
    /\ Detected.token_address # None
    /\ Cardinality(Sharing(Detected, Detected.token_address)) = 3

\* C7: the Token-Value matcher returns no-match for every text that matches one of the
\* Token-Details templates
C7_DetailsTemplatesExcludeValue ==
    (caller = "cli" /\ Search(token_details_patterns, LowerText(message))) =>
        Detected.token_address = None /\ Detected.token_network = None

\* C8: for the six address- or hash-centred matchers, a text that matches none of the
\* matcher's templates but holds an address or hash is a match exactly when one of the
\* matcher's fallback keywords appears; a bare address or hash is no match
C8_FallbackNeedsKeyword ==
    caller = "cli" =>
        LET lw == LowerText(message)
            addr == eth_address(message)
        IN /\ (addr # None /\ ~Search(token_value_patterns, lw)) =>
                  (Detected.token_address # None <=> Search(value_keywords, lw))
           /\ (addr # None /\ ~Search(token_details_patterns, lw)) =>
                  (Detected.details_token_address # None <=> Search(details_keywords, lw))
           /\ (addr # None /\ ~Search(profitloss_patterns, lw)) =>
                  (Detected.profitloss_token_address # None
                      <=> Search(profitloss_keywords, lw))
           /\ (addr # None /\ ~Search(history_patterns, lw)) =>
                  (Detected.wallet_address # None <=> Search(history_keywords, lw))
           /\ (addr # None /\ Len(message) = 1) => Detected.nft_wallet_address = None
           /\ (tx_hash_of(message) # None /\ Len(message) = 1) => Detected.tx_hash = None

\* C8, amended: the rule holds for token details, profit-loss and history, and for token
\* value unless an exclusion pattern matches (then there is no match); the NFT matcher
\* has no fallback, a text without an NFT template is no match; the trace matcher asks
\* for no keyword, every text with a hash yields that hash
C8_FallbackRule ==
    caller = "cli" =>
        LET lw == LowerText(message)
            addr == eth_address(message)
        IN /\ (addr # None /\ ~Search(token_value_patterns, lw)) =>
                  (Detected.token_address # None
                      <=> (Search(value_keywords, lw)
                           /\ ~Search(value_exclusion_patterns, lw)))
           /\ (addr # None /\ ~Search(token_details_patterns, lw)) =>
                  (Detected.details_token_address # None <=> Search(details_keywords, lw))
           /\ (addr # None /\ ~Search(profitloss_patterns, lw)) =>
                  (Detected.profitloss_token_address # None
                      <=> Search(profitloss_keywords, lw))
           /\ (addr # None /\ ~Search(history_patterns, lw)) =>
                  (Detected.wallet_address # None <=> Search(history_keywords, lw))
           /\ ~(Search(nft_patterns, lw) \/ nft_does_pattern(lw)) =>
                  Detected.nft_wallet_address = None /\ Detected.nft_network = None
           /\ tx_hash_of(message) # None => Detected.tx_hash = tx_hash_of(message)

\* a hash alone is reported by the trace matcher
C8_BareHashReported ==
    caller = "cli" /\ message = <<HASH1>> /\ Detected.tx_hash = HASH1

Present(x) == x # None /\ x # ""

\* C9: the transaction-trace fetch is invoked only when both a transaction hash and a
\* block number are present, on every path
C9_TraceNeedsHashAndBlock ==
    \A i \in DOMAIN calls :
        calls[i].action = "get-transaction-trace" =>
            Present(calls[i].params[1]) /\ Present(calls[i].params[2])

\* the network alias the matcher of the intent returned for the text
MatcherNetwork(t, action) ==
    CASE action = "get-gas-price" -> detect_gas_price_query(t)
      [] action = "get-nft-holdings" -> detect_nft_holdings_query(t)[2]
      [] action = "get-spot-price" -> detect_spot_price_query(t)[2]
      [] action = "get-token-value" -> detect_token_value_query(t)[2]
      [] action = "get-token-details" -> detect_token_details_query(t)[2]
      [] action = "get-token-profitloss" -> detect_token_profitloss_query(t)[2]
      [] action = "get-transaction-trace" -> detect_transaction_trace_query(t)[3]
      [] action = "get-transaction-history" -> detect_transaction_history_query(t)[2]

\* C10: the chain id handed to the fetch is the directory's chain id of the network
\* alias the matcher returned, for all eight intents
C10_ChainIdOfMatcherNetwork ==
    caller \in {"cli", "chat", "process"} =>
        \A i \in DOMAIN calls :
            FetchChainId(calls[i]) =
                NETWORK_TO_CHAIN_ID[MatcherNetwork(message, calls[i].action)]

\* a word that is exactly a 0x-prefixed run of AddrHexLen hex characters
WellFormedAddress(w) == Len(w) = AddrHexLen + 2 /\ HexTokenAt(w, 1, AddrHexLen)

\* a word that is exactly a 0x-prefixed run of HashHexLen hex characters
WellFormedHash(w) == Len(w) = HashHexLen + 2 /\ HexTokenAt(w, 1, HashHexLen)

\* the numerals and number words of the range phrases, with their canonical tokens
RangeWords ==
    [w \in {"1", "one", "7", "seven", "30", "thirty", "90", "ninety", "180", "365"} |->
        CASE w \in {"1", "one"} -> "1day"
          [] w \in {"7", "seven"} -> "7day"
          [] w \in {"30", "thirty"} -> "30day"
          [] w \in {"90", "ninety"} -> "90day"
          [] w = "180" -> "180day"
          [] w = "365" -> "365day"]

\* the words i and i + 1 of the text are a range phrase: "<n> day" or "<n> days"
RangePhraseAt(t, i) ==
    /\ i + 1 <= Len(t)
    /\ LowerOf[t[i]] \in DOMAIN RangeWords
    /\ LowerOf[t[i + 1]] \in {"day", "days"}

\* the canonical tokens of the range phrases of the text
RangesOf(t) == {RangeWords[LowerOf[t[i]]] : i \in {k \in DOMAIN t : RangePhraseAt(t, k)}}

SaysProfit(t) == \E i \in DOMAIN t : Contains(LowerOf[t[i]], "profit")

\* C11: for every text that holds a well-formed address and the word "profit", the
\* Profit-Loss matcher reports a match whose subject is that address, and whose timerange
\* is "1day" when the text holds no range phrase
C11_ProfitWithAddress ==
    caller = "cli" =>
        \A i \in DOMAIN message :
            (WellFormedAddress(message[i]) /\ SaysProfit(message)) =>
                /\ Detected.profitloss_token_address = message[i]
                /\ RangesOf(message) = {} => Detected.profitloss_timerange = "1day"

\* the same, for the texts in which no transaction hash comes before the address
C11_ProfitWithAddressFirst ==
    caller = "cli" =>
        \A i \in DOMAIN message :
            (/\ WellFormedAddress(message[i]) /\ SaysProfit(message)
             /\ \A j \in 1..(i - 1) : AddressOf[message[j]] = None) =>
                /\ Detected.profitloss_token_address = message[i]
                /\ RangesOf(message) = {} => Detected.profitloss_timerange = "1day"

CanonicalRanges == {"1day", "7day", "30day", "90day", "180day", "365day", "all"}

\* C12: the Profit-Loss matcher maps the range phrase of the text to its canonical token
\* ("30 days" gives "30day", "seven day" gives "7day"), overriding the "1day" default;
\* the timerange it returns and the timerange sent to the fetch are always canonical
C12_TimerangeCanonical ==
    /\ (caller = "cli" /\ Detected.profitloss_timerange # None) =>
          /\ Detected.profitloss_timerange \in CanonicalRanges
          /\ \A r \in CanonicalRanges :
                RangesOf(message) = {r} => Detected.profitloss_timerange = r
    /\ \A i \in DOMAIN calls :
          calls[i].action = "get-token-profitloss" => calls[i].params[3] \in CanonicalRanges

\* "30 days" has been mapped to "30day" and sent to the fetch
C12_ThirtyDaysSent ==
    /\ caller = "cli"
    /\ RangesOf(message) = {"30day"}
    /\ Detected.profitloss_timerange = "30day"
    /\ calls # <<>>
    /\ calls[1].action = "get-token-profitloss"
    /\ calls[1].params[3] = "30day"

\* "seven day" has been mapped to "7day"
C12_SevenDayMapped ==
    /\ caller = "cli"
    /\ RangesOf(message) = {"7day"}
    /\ Detected.profitloss_timerange = "7day"

\* a timerange that is not canonical has been replaced before the fetch
C12_InvalidReplaced ==
    /\ caller = "action"
    /\ kwargs.timerange = "2weeks"
    /\ calls # <<>>
    /\ calls[1].action = "get-token-profitloss"
    /\ calls[1].params[3] = "1day"

\* the aliases that occur in the lowercased text
Occurring(t) == UNION {AliasesOf[t[i]] : i \in DOMAIN t}

\* n is the first alias, in the directory's order, that occurs in the text, and
\* "ethereum" when none occurs
FirstOccurringAlias(t, n) ==
    IF Occurring(t) = {} THEN n = "ethereum"
    ELSE \E i \in DOMAIN NETWORK_ORDER :
            /\ n = NETWORK_ORDER[i]
            /\ n \in Occurring(t)
            /\ \A j \in 1..(i - 1) : NETWORK_ORDER[j] \notin Occurring(t)

\* the networks the eight matchers returned
ReportedNetworks(d) ==
    {d.network, d.nft_network, d.spot_network, d.token_network, d.details_token_network,
     d.profitloss_token_network, d.tx_network, d.history_network} \ {None}

\* C13: every matcher that reports a match returns as network the first alias, in the
\* directory's order, that occurs in the lowercased text, and "ethereum" when no alias
\* occurs; the network is always a key of the directory
C13_FirstAliasInOrder ==
    caller = "cli" =>
        \A n \in ReportedNetworks(Detected) :
            /\ FirstOccurringAlias(message, n)
            /\ n \in DOMAIN NETWORK_TO_CHAIN_ID

\* a text naming "base" before "Polygon": the matchers report polygon, the earlier key
C13_EarlierKeyWins ==
    /\ caller = "cli"
    /\ \E i, j \in DOMAIN message : i < j /\ message[i] = "base" /\ message[j] = "Polygon"
    /\ ReportedNetworks(Detected) = {"polygon"}

\* a text naming no network: the matchers that match report ethereum
C13_DefaultEthereum ==
    /\ caller = "cli"
    /\ Occurring(message) = {}
    /\ ReportedNetworks(Detected) = {"ethereum"}

\* the text matches no keyword template of any of the eight intents
NoTemplate(t) ==
    LET lw == LowerText(t)
    IN /\ ~Search(gas_patterns, lw)
       /\ ~Search(nft_patterns, lw) /\ ~nft_does_pattern(lw)
       /\ ~Search(price_patterns, lw)
       /\ ~Search(token_value_patterns, lw)
       /\ ~Search(token_details_patterns, lw)
       /\ ~Search(profitloss_patterns, lw)
       /\ ~Search(trace_patterns, lw)
       /\ ~Search(history_patterns, lw)

\* all eight matchers returned no-match
NoMatch(d) == \A f \in DOMAIN d : d[f] = None

\* no fetch is issued and the message goes to a plain chat completion
PlainChat ==
    /\ calls = <<>>
    /\ caller = "cli" => NoMatch(Detected) /\ pc \in {"cli_chat", "done"}
    /\ pc = "done" => outcome = (IF caller = "cli" THEN "chat_plain" ELSE "ollama")

C14_NoWellFormedToken ==
    (/\ caller \in {"cli", "chat"}
     /\ NoTemplate(message)
     /\ \A i \in DOMAIN message :
           ~WellFormedAddress(message[i]) /\ ~WellFormedHash(message[i])) => PlainChat

TokenFields ==
    <<{"token_address", "token_network"},
      {"details_token_address", "details_token_network"},
      {"profitloss_token_address", "profitloss_token_network", "profitloss_timerange"}>>

\* the locals of the gas, NFT, spot-price, trace and history results
OtherFields ==
    {"network", "nft_wallet_address", "nft_network", "currency", "spot_network", "tx_hash",
     "block_number", "tx_network", "wallet_address", "history_network"}

\* C16: disambiguation changes a token result only when its subject is not null and equal
\* to the subject of another of the three token intents; the gas, NFT, spot-price, trace
\* and history results are left unchanged
C16_ClearsOnlyShared ==
    caller = "cli" =>
        /\ \A f \in OtherFields : Resolved[f] = Detected[f]
        /\ \A i \in 1..3 :
              (\E f \in TokenFields[i] : Resolved[f] # Detected[f]) =>
                  /\ Subjects(Detected)[i] # None
                  /\ Cardinality(Sharing(Detected, Subjects(Detected)[i])) >= 2

\* a token result was cleared next to a history result, which stayed
C16_HistoryKept ==
    /\ caller = "cli"
    /\ Resolved # Detected
    /\ Detected.wallet_address # None
    /\ Resolved.wallet_address = Detected.wallet_address

\* a token result without a subject stayed as it was
C16_AbsentSubjectKept ==
    /\ caller = "cli"
    /\ \A i \in 1..3 : Subjects(Detected)[i] = None
    /\ \E i \in 1..3 : \E f \in TokenFields[i] : Detected[f] # None
    /\ Resolved = Detected

\* the addresses the address-keyed matchers reported
ReportedAddresses(d) ==
    {d.nft_wallet_address, d.token_address, d.details_token_address,
     d.profitloss_token_address, d.wallet_address} \ {None}

\* C17: a malformed identifier never becomes a subject: every address a matcher reports
\* is a whole word of the text made of "0x" and exactly 40 hex characters, every hash a
\* whole word made of "0x" and exactly 64; a transaction hash is never reported, whole or
\* in part, as an address
C17_OnlyWellFormedSubjects ==
    caller = "cli" =>
        /\ \A a \in ReportedAddresses(Detected) :
              WellFormedAddress(a) /\ \E i \in DOMAIN message : message[i] = a
        /\ Detected.tx_hash # None =>
              /\ WellFormedHash(Detected.tx_hash)
              /\ \E i \in DOMAIN message : message[i] = Detected.tx_hash

\* the locals that hold a network, a currency, a timerange or a block number
ExtractedFields ==
    {"network", "nft_network", "currency", "spot_network", "token_network",
     "details_token_network", "profitloss_token_network", "profitloss_timerange",
     "block_number", "tx_network", "history_network"}

\* the matchers match alike on two texts and extract the same network, currency,
\* timerange and block number from them
SameReading(d, e) ==
    /\ \A f \in DOMAIN d : (d[f] = None) <=> (e[f] = None)
    /\ \A f \in ExtractedFields : d[f] = e[f]

\* C18: matching is case-insensitive in every matcher: the text and the text with its
\* letters changed to lower case are matched alike, with the same network, currency,
\* timerange and block number ("Block 12345" and "block 12345" give the same block number)
C18_CaseInsensitive ==
    caller = "cli" => SameReading(Detected, Detect(LowerText(message)))

\* a word made of decimal digits only
IsNumeral(w) == w # "" /\ \A k \in 1..Len(w) : IsDigit(CharAt(w, k))

\* the word i of the text is "block" (or "blk") and the next word is a numeral
ExplicitBlockAt(t, i) == t[i] \in {"block", "blk"} /\ i + 1 <= Len(t) /\ IsNumeral(t[i + 1])

\* the word i of the text is a standalone numeral of MinBlockDigits or more digits
LongNumeralAt(t, i) == IsNumeral(t[i]) /\ Len(t[i]) >= MinBlockDigits

\* the block number of the text: the numeral of the first explicit phrase, otherwise the
\* first long standalone numeral, otherwise none
BlockNumberOf(t) ==
    IF \E i \in DOMAIN t : ExplicitBlockAt(t, i)
    THEN t[1 + CHOOSE i \in DOMAIN t :
                   ExplicitBlockAt(t, i) /\ \A j \in 1..(i - 1) : ~ExplicitBlockAt(t, j)]
    ELSE IF \E i \in DOMAIN t : LongNumeralAt(t, i)
    THEN t[CHOOSE i \in DOMAIN t :
               LongNumeralAt(t, i) /\ \A j \in 1..(i - 1) : ~LongNumeralAt(t, j)]
    ELSE None

\* C19: the trace matcher takes the block number from an explicit "block <number>"
\* phrase whenever one is present, otherwise from the first standalone numeral of 7 or
\* more digits, and reports none when neither is present; digits inside the transaction
\* hash are never taken as the block number
C19_BlockNumberSource ==
    (caller = "cli" /\ Detected.tx_network # None) =>
        Detected.block_number = BlockNumberOf(message)

\* the same, for the texts in which no hex token follows "block"
C19_BlockNumberSourceApart ==
    (/\ caller = "cli" /\ Detected.tx_network # None
     /\ \A i \in DOMAIN message :
           (message[i] \in {"block", "blk"} /\ i + 1 <= Len(message)) =>
               HashOf[message[i + 1]] = None /\ AddressOf[message[i + 1]] = None) =>
        Detected.block_number = BlockNumberOf(message)

\* the action was called with a network name that is no alias of the directory in any
\* letter case, and with no chain id
UnknownNetworkCall ==
    /\ caller = "action"
    /\ kwargs.network # None
    /\ Lower(kwargs.network) \notin DOMAIN NETWORK_TO_CHAIN_ID
    /\ kwargs.chain_id = None

\* the action returned failure and the fetch collaborator was not called
FailedWithoutFetch == calls = <<>> /\ pc = "done" /\ outcome = "failed"

\* C20, as stated: a get-* action called with a network name that is not an alias of the
\* directory and with no chain id returns failure without calling the fetch
C20_UnknownNetworkFails == UnknownNetworkCall => FailedWithoutFetch

\* C20, amended: so do the seven get-* actions that read a network name, and a known
\* alias is found in any letter case; get-spot-price reads no network name and fetches
\* with the chain id it is given, "1" without one
C20_UnknownNetworkFailsWhereRead ==
    caller = "action" =>
        /\ (UnknownNetworkCall /\ kwargs.action # "get-spot-price") => FailedWithoutFetch
        /\ (/\ kwargs.network # None
            /\ Lower(kwargs.network) \in DOMAIN NETWORK_TO_CHAIN_ID) => calls # <<>>
        /\ kwargs.action = "get-spot-price" =>
              calls = <<[action |-> "get-spot-price",
                         params |-> <<"USD", IF kwargs.chain_id = None THEN "1"
                                             ELSE kwargs.chain_id>>]>>

\* get-gas-price was called for the unknown network "solana" and failed without a fetch
C20_SolanaGasFailed ==
    /\ UnknownNetworkCall
    /\ kwargs.action = "get-gas-price"
    /\ kwargs.network = "solana"
    /\ FailedWithoutFetch

\* get-token-value was called for "Base" and the fetch went to chain 8453
C20_BaseInAnyCase ==
    /\ caller = "action"
    /\ kwargs.action = "get-token-value"
    /\ kwargs.network = "Base"
    /\ kwargs.chain_id = None
    /\ calls = <<[action |-> "get-token-value", params |-> <<ADDR1, "8453">>]>>

(***************************************************************************)
(* The network name get_gas_price shows for the chain id it works with     *)
(***************************************************************************)
\* str.capitalize()
Capitalize(s) ==
    IF Len(s) = 0 THEN "" ELSE UpperChar(CharAt(s, 1)) \o Lower(SubSeq(s, 2, Len(s)))

\* the loop over the directory keeping the last alias of the chain id
display_network_LastAlias(network, chain_id) ==
    LET cid == resolve_chain_id(network, chain_id)
        hits == {i \in DOMAIN NETWORK_ORDER : NETWORK_TO_CHAIN_ID[NETWORK_ORDER[i]] = cid}
    IN IF hits = {} THEN "Chain ID " \o cid
       ELSE Capitalize(NETWORK_ORDER[CHOOSE i \in hits : \A j \in hits : j <= i])

\* the local  network  of get_gas_price when it logs and calls: "Ethereum" without
\* arguments, else the first key of the directory with the chain id, capitalized
display_network(network, chain_id) ==
    LET cid == resolve_chain_id(network, chain_id)
        hits == {i \in DOMAIN NETWORK_ORDER : NETWORK_TO_CHAIN_ID[NETWORK_ORDER[i]] = cid}
    IN IF network = None /\ chain_id = None THEN "Ethereum"
       ELSE IF hits = {} THEN "Chain ID " \o cid
       ELSE Capitalize(NETWORK_ORDER[Least(hits)])

\* get_gas_price was called by name and went on to its fetch
GasActionCalled ==
    /\ caller = "action"
    /\ kwargs.action = "get-gas-price"
    /\ calls # <<>>

\* C21: the name get_gas_price shows for the chain id it fetches is the first alias
\* of that chain in the directory's order (ethereum for 1, binance for 56, polygon
\* for 137), and looking the shown name up again gives the same chain id
C21_ReverseLookupRoundTrip ==
    GasActionCalled =>
        LET cid == calls[1].params[1]
            shown == display_network(kwargs.network, kwargs.chain_id)
        IN /\ \E i \in DOMAIN NETWORK_ORDER :
                 /\ Lower(shown) = NETWORK_ORDER[i]
                 /\ NETWORK_TO_CHAIN_ID[NETWORK_ORDER[i]] = cid
                 /\ \A j \in 1..(i - 1) : NETWORK_TO_CHAIN_ID[NETWORK_ORDER[j]] # cid
           /\ cid = "1" => Lower(shown) = "ethereum"
           /\ cid = "56" => Lower(shown) = "binance"
           /\ cid = "137" => Lower(shown) = "polygon"
           /\ resolve_chain_id(shown, None) = cid

\* called for the network "matic", the action shows "Polygon" and fetches chain 137
C21_MaticShownAsPolygon ==
    /\ GasActionCalled
    /\ kwargs.network = "matic"
    /\ kwargs.chain_id = None
    /\ calls[1].params = <<"137">>
    /\ display_network(kwargs.network, kwargs.chain_id) = "Polygon"

(***************************************************************************)
(* The CLI chat loop and /ollama/chat on the same text                     *)
(***************************************************************************)
\* what the CLI chat loop, connected to api_tools, forwards for the text t
CliForward(t) ==
    LET d == Disambiguate(t)[4]
    IN IF CliSelect(d) = 0 THEN <<>> ELSE CliCalls(d, CliRungs[CliSelect(d)])

\* a forwarded call as intent kind, chain id, and subject with secondary parameters
Forwarded(call) ==
    [kind |-> call.action,
     chain |-> FetchChainId(call),
     rest |-> CASE call.action = "get-gas-price" -> <<>>
                [] call.action = "get-transaction-trace" -> SubSeq(call.params, 1, 2)
                [] call.action = "get-token-profitloss" ->
                      <<call.params[1], call.params[3]>>
                [] OTHER -> <<call.params[1]>>]

ForwardedAll(cs) == [i \in DOMAIN cs |-> Forwarded(cs[i])]

\* C22: for every text, /ollama/chat forwards to the fetch collaborator the same
\* intent kind with the same subject, network and secondary parameters as the CLI
\* chat loop does for that text, or both forward nothing
C22_SameSelection ==
    caller = "chat" =>
        ForwardedAll(IF calls = <<>> THEN <<>> ELSE <<calls[1]>>)
            = ForwardedAll(CliForward(message))

\* the same for the intent kind alone
C22_SameKind ==
    caller = "chat" =>
        LET cli == CliForward(message)
        IN IF calls = <<>> THEN cli = <<>>
           ELSE cli # <<>> /\ cli[1].action = calls[1].action

(***************************************************************************)
(* The scores within a conflict group                                      *)
(***************************************************************************)
\* the scores of the token-value, token-details and profit-loss results, in the
\* order of Subjects
ScoresOf(t) == <<value_score(t), details_score(t), profitloss_score(t)>>

\* C23: in every group of token-value, token-details and profit-loss results that
\* share one address, a result that survives the three pairwise steps has a score
\* greater than or equal to the score of every result of the group that was cleared
C23_SurvivorHasTopScore ==
    caller = "cli" =>
        \A a \in {Subjects(Detected)[i] : i \in 1..3} \ {None} :
            \A s, i \in Sharing(Detected, a) :
                (Subjects(Resolved)[s] # None /\ Subjects(Resolved)[i] = None) =>
                    ScoresOf(message)[s] >= ScoresOf(message)[i]

\* all three results share the address, token-details is cleared by token-value in the
\* first step and profit-loss, which is never compared with token-details, survives
C23_ProfitLossNeverMetDetails ==
    /\ C6_TripleOverlap
    /\ AfterVD.details_token_address = None
    /\ profitloss_score(message) > value_score(message)
    /\ value_score(message) > 0
    /\ Resolved.profitloss_token_address # None

\* all three share the address and token-value survives both of its comparisons
C23_ValueSurvivesBoth ==
    /\ C6_TripleOverlap
    /\ Resolved.token_address # None
    /\ value_score(message) > 0

(***************************************************************************)
(* The turns of the CLI chat session                                       *)
(***************************************************************************)
MaxTurns == 3

\* the rung the input selects, by the shape of its code after the chat action: "gas"
\* (lines 763-786), "nft" (788-808), "spot" for each of the six rungs of lines
\* 811-934, "none" when no rung is taken
SessionIntents == {"none", "gas", "nft", "spot"}

\* execute_action: data (for NFT holdings with or without assets), False, or an
\* exception
SessionFetchResults(k) ==
    IF k = "nft" THEN {"data", "no_assets", "false", "raised"}
    ELSE {"data", "false", "raised"}

\* the chat action: a falsy response, or a response with or without the indicators the
\* loop looks for (the subject or one of the rung's keywords)
Replies == {"empty", "uses", "ignores"}

\* line 70
AddUserMessage(h, n) == Append(h, [role |-> "user", turn |-> n, template |-> 0])

\* a faulty variant: the instruction takes the place of the last message
AddSystemMessage_Replacing(h, n) ==
    Append(SubSeq(h, 1, Len(h) - 1), [role |-> "system", turn |-> n, template |-> n])

\* lines 232-241 and the like in each rung: the instruction with the template
AddSystemMessage(h, n) == Append(h, [role |-> "system", turn |-> n, template |-> n])

\* line 940; r is the response, the reply of turn r.turn with template r.template
AddAssistantMessage(h, r) ==
    Append(h, [role |-> "assistant", turn |-> r.turn, template |-> r.template])

\* the model's reply of turn n as it came
Plain(n) == [turn |-> n, template |-> 0]

\* f"{response}\n\nActually, let me provide you with the exact ...:\n\n{template_response}"
Corrected(n, t) == [turn |-> n, template |-> t]

\* the messages of role r, in their order
RECURSIVE OfRole(_, _)
OfRole(messages, r) ==
    IF messages = <<>> THEN <<>>
    ELSE (IF messages[1].role = r THEN <<messages[1]>> ELSE <<>>)
             \o OfRole(SubSeq(messages, 2, Len(messages)), r)

\* an open line "Assistant: "
OpenLine == [role |-> "assistant", turn |-> 0, template |-> 0, open |-> TRUE]

Line(m) == [role |-> m.role, turn |-> m.turn, template |-> m.template, open |-> FALSE]

\* "for i in range(max(len(user_messages), len(assistant_messages)))", from i on
RECURSIVE Interleave(_, _, _)
Interleave(user_messages, assistant_messages, i) ==
    IF i > Len(user_messages) /\ i > Len(assistant_messages) THEN <<>>
    ELSE (IF i <= Len(user_messages) THEN <<Line(user_messages[i])>> ELSE <<>>)
             \o (IF i <= Len(assistant_messages)
                 THEN <<Line(assistant_messages[i])>> ELSE <<>>)
             \o Interleave(user_messages, assistant_messages, i + 1)

\* OllamaConnection._chat_with_generate_api: the lines of the prompt
BuildPrompt(messages) ==
    LET user_messages == OfRole(messages, "user")
        assistant_messages == OfRole(messages, "assistant")
    IN Interleave(user_messages, assistant_messages, 1)
           \o (IF Len(user_messages) > Len(assistant_messages)
               THEN <<OpenLine>> ELSE <<>>)

\* the input is read and added to the history, the matchers and the ladder select a
\* rung; None when no action is to be executed
UserInput ==
    /\ spc = "input"
    /\ turn < MaxTurns
    /\ turn' = turn + 1
    /\ chat_history' = AddUserMessage(chat_history, turn')
    /\ intent' \in SessionIntents
    /\ spc' = IF intent' = "none" THEN "chat" ELSE "fetch"
    /\ reply' = None
    /\ ended' = None
    /\ UNCHANGED <<template_response, corrected_response, nft_result, prompt>>
    /\ UNCHANGED <<vars, lvars, cvars>>

\* lines 65-67: "exit" or "quit"
UserExit ==
    /\ spc = "input"
    /\ spc' = "ended"
    /\ UNCHANGED <<turn, intent, reply, ended, chat_history, template_response,
                   corrected_response, nft_result, prompt>>
    /\ UNCHANGED <<vars, lvars, cvars>>

\* the rung's try block: execute_action returns or raises; a result that is truthy
\* and no bool makes the template and the instruction
SessionFetchReturn ==
    /\ spc = "fetch"
    /\ \E r \in SessionFetchResults(intent) :
          /\ template_response' =
                IF r \in {"data", "no_assets"} THEN turn ELSE template_response
          /\ chat_history' =
                IF r \in {"data", "no_assets"} THEN AddSystemMessage(chat_history, turn)
                ELSE chat_history
          /\ nft_result' =
                IF intent = "nft" /\ r # "raised"
                THEN IF r = "false" THEN FalseResult
                     ELSE [value |-> "data", turn |-> turn, assets |-> r = "data"]
                ELSE nft_result
    /\ spc' = "chat"
    /\ UNCHANGED <<turn, intent, reply, ended, corrected_response, prompt>>
    /\ UNCHANGED <<vars, lvars, cvars>>

\* lines 763-934 for a truthy reply r of this turn: the new value of corrected_response
\* and the response to add to the history; raised when the code raises on the way
AfterReply(r) ==
    LET spliced == r = "ignores" /\ template_response # Unbound
    IN CASE intent = "none" ->
              [raised |-> FALSE, corrected |-> corrected_response, response |-> Plain(turn)]
         [] intent = "gas" ->
              IF spliced
              THEN [raised |-> FALSE, corrected |-> Corrected(turn, template_response),
                    response |-> Corrected(turn, template_response)]
              ELSE [raised |-> FALSE, corrected |-> corrected_response,
                    response |-> Plain(turn)]
         [] intent = "nft" ->
              \* '"assets" in nft_result' raises on an unassigned local and on False
              IF nft_result \in {UnboundResult, FalseResult}
              THEN [raised |-> TRUE, corrected |-> corrected_response,
                    response |-> Plain(turn)]
              ELSE LET contains_nft_data == r = "uses" \/ nft_result.assets
                       made == IF ~contains_nft_data /\ template_response # Unbound
                               THEN Corrected(turn, template_response)
                               ELSE corrected_response
                   \* line 808, "response = corrected_response", is outside the if
                   IN IF made = UnboundResponse
                      THEN [raised |-> TRUE, corrected |-> made, response |-> Plain(turn)]
                      ELSE [raised |-> FALSE, corrected |-> made, response |-> made]
         [] intent = "spot" ->
              [raised |-> FALSE, corrected |-> corrected_response,
               response |-> IF spliced THEN Corrected(turn, template_response)
                            ELSE Plain(turn)]

\* lines 755-944: the chat action is called with the history, its reply is checked
\* and added to the history; an exception on the way is logged
SessionChatReturn ==
    /\ spc = "chat"
    /\ prompt' = BuildPrompt(chat_history)
    /\ reply' \in Replies
    /\ IF reply' = "empty"
       THEN /\ ended' = "no_response"
            /\ UNCHANGED <<chat_history, corrected_response>>
       ELSE /\ corrected_response' = AfterReply(reply').corrected
            /\ chat_history' =
                  IF AfterReply(reply').raised THEN chat_history
                  ELSE AddAssistantMessage(chat_history, AfterReply(reply').response)
            /\ ended' = IF AfterReply(reply').raised THEN "exception" ELSE "appended"
    /\ spc' = "input"
    /\ UNCHANGED <<turn, intent, template_response, nft_result>>
    /\ UNCHANGED <<vars, lvars, cvars>>

SessionNext ==
    \/ UserInput
    \/ UserExit
    \/ SessionFetchReturn
    \/ SessionChatReturn

SessionSpec == Init /\ [][SessionNext]_<<vars, others>>

(***************************************************************************)
(* Properties of the chat session                                          *)
(***************************************************************************)
\* the positions of the history that belong to the current turn: after its user message
ThisTurn ==
    {i \in DOMAIN chat_history :
        \E u \in 1..(i - 1) :
            chat_history[u].role = "user" /\ chat_history[u].turn = turn}

\* a turn is over in which the chat action returned a non-empty response
RepliedTurnOver == spc \in {"input", "ended"} /\ reply \in {"uses", "ignores"}

\* C24: every turn of the CLI chat loop in which the model returns a non-empty
\* response ends with exactly one assistant message, carrying that turn's response,
\* added to the chat history, whichever intent was detected and whether or not the
\* response used the fetched data
C24_OneAssistantPerReply ==
    RepliedTurnOver =>
        /\ Cardinality({i \in ThisTurn : chat_history[i].role = "assistant"}) = 1
        /\ chat_history[Len(chat_history)].role = "assistant"
        /\ chat_history[Len(chat_history)].turn = turn

\* the same for the turns that take another rung than the NFT rung
C24_OneAssistantPerReplyApart ==
    (RepliedTurnOver /\ intent # "nft") =>
        /\ Cardinality({i \in ThisTurn : chat_history[i].role = "assistant"}) = 1
        /\ chat_history[Len(chat_history)].role = "assistant"
        /\ chat_history[Len(chat_history)].turn = turn

\* the turn of the user message that the message at position i follows
TurnAt(i) ==
    LET before == {u \in 1..i : chat_history[u].role = "user"}
    IN IF before = {} THEN 0
       ELSE chat_history[CHOOSE u \in before : \A v \in before : v <= u].turn

\* C25: a corrective text in a reply of the CLI chat loop is built from the data
\* fetched in the same turn: no assistant message holds a template, or a corrected
\* response, made in an earlier turn
C25_CorrectionFromSameTurn ==
    \A i \in DOMAIN chat_history :
        chat_history[i].role = "assistant" =>
            /\ chat_history[i].turn = TurnAt(i)
            /\ chat_history[i].template \in {0, TurnAt(i)}

\* the template of an instruction in the history is the one of its own turn
C25_InstructionFromSameTurn ==
    \A i \in DOMAIN chat_history :
        (chat_history[i].role = "system" /\ i > 1) =>
            chat_history[i].template = TurnAt(i)

\* h is g with messages added at its end
Extends(h, g) == Len(h) >= Len(g) /\ SubSeq(h, 1, Len(g)) = g

\* the roles of the messages of turn n, in their order
RolesOfTurn(n) ==
    LET held == {i \in DOMAIN chat_history : TurnAt(i) = n}
    IN [k \in 1..Cardinality(held) |-> chat_history[Least(held) + k - 1].role]

\* user message, then at most one instruction with data, then at most one assistant
\* message
TurnShapes ==
    {<<"user">>, <<"user", "system">>, <<"user", "assistant">>,
     <<"user", "system", "assistant">>}

\* C26: the CLI chat history starts with the personality system message and only
\* grows at its end; the messages of one turn are the user message, then at most one
\* system message with data, then at most one assistant message
C26_HistoryAppendOnly ==
    /\ [](/\ chat_history[1] = Personality
          /\ \A n \in 1..turn : RolesOfTurn(n) \in TurnShapes)
    /\ [][Extends(chat_history', chat_history)]_<<vars, others>>

\* a turn with all three messages, after an earlier turn
C26_FullTurn ==
    /\ turn = 2
    /\ RolesOfTurn(1) = <<"user", "assistant">>
    /\ RolesOfTurn(2) = <<"user", "system", "assistant">>

\* the user and assistant messages of the list, in the list's order
Conversation(messages) ==
    LET said == {i \in DOMAIN messages : messages[i].role \in {"user", "assistant"}}
        nth(k) == CHOOSE i \in said : Cardinality({j \in said : j <= i}) = k
    IN [k \in 1..Cardinality(said) |-> Line(messages[nth(k)])]

\* the history the chat action was last called with: without the reply
HistorySent ==
    IF ended = "appended" THEN SubSeq(chat_history, 1, Len(chat_history) - 1)
    ELSE chat_history

PromptBuilt == spc \in {"input", "ended"} /\ turn > 0

\* C27: the prompt built by _chat_with_generate_api lists the user and assistant
\* messages in the order they have in the message list it was given, also when a
\* failed turn left two user messages in a row, and ends with an open "Assistant: "
\* line exactly when the list has more user than assistant messages
C27_PromptKeepsOrder ==
    PromptBuilt =>
        LET lines == SelectSeq(prompt, LAMBDA l : ~l.open)
        IN /\ lines = Conversation(HistorySent)
           /\ (prompt[Len(prompt)].open <=>
                  Len(OfRole(HistorySent, "user")) > Len(OfRole(HistorySent, "assistant")))

\* the same for the open line alone
C27_OpenLine ==
    PromptBuilt =>
        (prompt[Len(prompt)].open <=>
            Len(OfRole(HistorySent, "user")) > Len(OfRole(HistorySent, "assistant")))

\* the same for the lists in which every user message but the last has its reply
C27_PromptKeepsOrderPaired ==
    (PromptBuilt /\ \A n \in 1..(turn - 1) : "assistant" \in
                        {RolesOfTurn(n)[i] : i \in DOMAIN RolesOfTurn(n)}) =>
        SelectSeq(prompt, LAMBDA l : ~l.open) = Conversation(HistorySent)

(***************************************************************************)
(* The agent loop: start_agent_loop and stop_agent_loop run on the event   *)
(* loop, one at a time; the threads of _run_agent_loop run beside them     *)
(***************************************************************************)
\* Thread.is_alive(): from start() until _run_agent_loop has returned
Alive(t) == threads[t] \in {"loop", "leaving", "stopped"}

\* POST /agents/{name}/load
LoadAgent ==
    /\ lpc = "idle"
    /\ ~agent
    /\ agent' = TRUE
    /\ UNCHANGED <<agent_running, stop_event, agent_task, threads, lpc, server_reply>>
    /\ UNCHANGED <<vars, svars, cvars>>

\* lines 59-63: "No agent loaded", "Agent already running"
StartRefused ==
    /\ lpc = "idle"
    /\ ~agent \/ agent_running
    /\ server_reply' = IF ~agent THEN "no_agent" ELSE "already_running"
    /\ UNCHANGED <<agent, agent_running, stop_event, agent_task, threads, lpc>>
    /\ UNCHANGED <<vars, svars, cvars>>

\* lines 65-68
StartAgentLoop ==
    /\ lpc = "idle"
    /\ agent
    /\ ~agent_running
    /\ agent_task < MaxStarts
    /\ agent_running' = TRUE
    /\ stop_event' = FALSE
    /\ agent_task' = agent_task + 1
    /\ threads' = [threads EXCEPT ![agent_task'] = "loop"]
    /\ server_reply' = "started"
    /\ UNCHANGED <<agent, lpc>>
    /\ UNCHANGED <<vars, svars, cvars>>

\* lines 72-74, up to the join
StopAgentLoop ==
    /\ lpc = "idle"
    /\ IF agent_running
       THEN /\ stop_event' = TRUE
            /\ IF agent_task # 0
               THEN lpc' = "joining" /\ UNCHANGED <<agent_running, server_reply>>
               ELSE /\ agent_running' = FALSE
                    /\ server_reply' = "stopped"
                    /\ UNCHANGED lpc
       ELSE /\ server_reply' = "stopped"
            /\ UNCHANGED <<agent_running, stop_event, lpc>>
    /\ UNCHANGED <<agent, agent_task, threads>>
    /\ UNCHANGED <<vars, svars, cvars>>

\* lines 75-76: join(timeout=5) returns because the thread has ended
JoinEnded ==
    /\ lpc = "joining"
    /\ ~Alive(agent_task)
    /\ agent_running' = FALSE
    /\ lpc' = "idle"
    /\ server_reply' = "stopped"
    /\ UNCHANGED <<agent, stop_event, agent_task, threads>>
    /\ UNCHANGED <<vars, svars, cvars>>

\* lines 75-76: join(timeout=5) returns after 5 seconds, the thread still alive
JoinTimedOut ==
    /\ lpc = "joining"
    /\ Alive(agent_task)
    /\ agent_running' = FALSE
    /\ lpc' = "idle"
    /\ server_reply' = "stopped"
    /\ UNCHANGED <<agent, stop_event, agent_task, threads>>
    /\ UNCHANGED <<vars, svars, cvars>>

\* line 40: the thread finds the stop event set
LoopSeesStop(t) ==
    /\ threads[t] = "loop"
    /\ stop_event
    /\ threads' = [threads EXCEPT ![t] = "leaving"]
    /\ UNCHANGED <<agent, agent_running, stop_event, agent_task, lpc, server_reply>>
    /\ UNCHANGED <<vars, svars, cvars>>

\* lines 53-54: finally
LoopFinally(t) ==
    /\ threads[t] = "leaving"
    /\ agent_running' = FALSE
    /\ threads' = [threads EXCEPT ![t] = "stopped"]
    /\ UNCHANGED <<agent, stop_event, agent_task, lpc, server_reply>>
    /\ UNCHANGED <<vars, svars, cvars>>

\* line 55 and the return of the thread's function
LoopReturns(t) ==
    /\ threads[t] = "stopped"
    /\ threads' = [threads EXCEPT ![t] = "dead"]
    /\ UNCHANGED <<agent, agent_running, stop_event, agent_task, lpc, server_reply>>
    /\ UNCHANGED <<vars, svars, cvars>>

LoopNext ==
    \/ LoadAgent
    \/ StartRefused
    \/ StartAgentLoop
    \/ StopAgentLoop
    \/ JoinEnded
    \/ JoinTimedOut
    \/ \E t \in 1..MaxStarts : LoopSeesStop(t)
    \/ \E t \in 1..MaxStarts : LoopFinally(t)
    \/ \E t \in 1..MaxStarts : LoopReturns(t)

LoopSpec == Init /\ [][LoopNext]_<<vars, others>>

\* the agent loop when every join lasts until its thread has ended
LoopNextPatient ==
    \/ LoadAgent
    \/ StartRefused
    \/ StartAgentLoop
    \/ StopAgentLoop
    \/ JoinEnded
    \/ \E t \in 1..MaxStarts : LoopSeesStop(t)
    \/ \E t \in 1..MaxStarts : LoopFinally(t)
    \/ \E t \in 1..MaxStarts : LoopReturns(t)

LoopPatientSpec == Init /\ [][LoopNextPatient]_<<vars, others>>

AliveThreads == {t \in 1..MaxStarts : Alive(t)}

\* C28: under every interleaving of start_agent_loop, stop_agent_loop and the loop
\* thread, at most one agent-loop thread is alive at a time and agent_running is
\* true whenever a loop thread is alive
C28_OneLoopThread ==
    /\ Cardinality(AliveThreads) <= 1
    /\ AliveThreads # {} => agent_running

\* the first half alone
C28_AtMostOneAlive == Cardinality(AliveThreads) <= 1

\* the second half for the threads that are still in their loop
C28_RunningWhileLooping ==
    (\E t \in 1..MaxStarts : threads[t] = "loop") => agent_running

(***************************************************************************)
(* The connection to the 1inch API: its key, get_gas_price and what is     *)
(* logged about the key                                                    *)
(***************************************************************************)
KEY_SHORT == "abcd"

KEY_LONG == "sk-0123456789"

KEY_NEW == "sk-9876543210"

PLACEHOLDER == "your_api_key_here"

\* the values of ONEINCH_API_KEY in the environment
EnvKeys == {"", KEY_SHORT, KEY_LONG, KEY_NEW}

\* the values of "api_key" in the connection's configuration
ConfigKeys == {"", KEY_LONG, PLACEHOLDER}

\* the length above which a key is shown by its ends
MaskMinLen == 8

MaskShown == 4

\* key[:4]
First4(k) == SubSeq(k, 1, IF Len(k) < MaskShown THEN Len(k) ELSE MaskShown)

\* key[-4:]
Last4(k) == SubSeq(k, IF Len(k) < MaskShown THEN 1 ELSE Len(k) - MaskShown + 1, Len(k))

\* lines 36-37
InitRecord(k) ==
    "Initialized API Tools connection with API key: "
        \o (IF Len(k) > MaskMinLen THEN First4(k) \o "..." \o Last4(k) ELSE "****")

\* line 39
NoKeyRecord == "API Tools connection initialized without API key."

\* line 189
PartialRecord(k) ==
    "API Key (partial): " \o First4(k) \o "..."
        \o (IF Len(k) > MaskMinLen THEN Last4(k) ELSE "")

\* lines 191-196: the headers are logged as they are sent
HeadersRecord(k) ==
    "Headers: {'Authorization': 'Bearer " \o k \o "', 'Accept': 'application/json'}"

\* line 248
HiddenRecord == "Headers: Authorization: Bearer ***[API_KEY_HIDDEN]***"

\* line 185
MissingKeyRecord == "No API key found for 1inch API."

\* lines 21-32: the key of the configuration before the one of the environment, the
\* placeholder counting as no key
SelectedKey(config_key, env) ==
    LET k == IF config_key # "" THEN config_key ELSE env
    IN IF k = PLACEHOLDER THEN "" ELSE k

\* lines 226-229: "except Exception as e: ... return {'error': error_msg}"
OnException == "error"

\* a 401 is always tried again
Retries_Always(r, env, key) == r = "401"

\* lines 206-216: a 401 is tried again when the environment has another key
Retries(r, env, key) == r = "401" /\ env # key

\* what answers requests.get: a status code with a body, or an exception
Responses == {"200", "200_not_json", "401", "500", "no_connection"}

\* APIToolsConnection.__init__
NewConnection ==
    /\ gpc = "idle"
    /\ \E config_key \in ConfigKeys : api_key' = SelectedKey(config_key, env_key)
    /\ log' = log \cup {IF api_key' # "" THEN InitRecord(api_key') ELSE NoKeyRecord}
    /\ UNCHANGED <<env_key, gpc, attempts, sent_keys, returned>>
    /\ UNCHANGED <<vars, svars, lvars>>

\* the environment of the process gets another ONEINCH_API_KEY between two calls
SetEnv ==
    /\ gpc = "idle"
    /\ env_key' \in EnvKeys \ {env_key}
    /\ UNCHANGED <<api_key, gpc, attempts, sent_keys, returned, log>>
    /\ UNCHANGED <<vars, svars, lvars>>

\* get_gas_price, lines 178-198, entered with the key k for the n-th time in this
\* call: the state it leaves when it returns at once or waits for the response
Entered(k, n) ==
    IF k = ""
    THEN [gpc |-> "returned", returned |-> "error", sent_keys |-> sent_keys,
          log |-> log \cup {MissingKeyRecord}, attempts |-> n]
    ELSE [gpc |-> "request", returned |-> None, sent_keys |-> Append(sent_keys, k),
          log |-> log \cup {PartialRecord(k), HeadersRecord(k)}, attempts |-> n]

\* perform_action("get-gas-price"): get_gas_price up to requests.get
GasPriceCall ==
    /\ gpc = "idle"
    /\ gpc' = Entered(api_key, 1).gpc
    /\ returned' = Entered(api_key, 1).returned
    /\ sent_keys' = Entered(api_key, 1).sent_keys
    /\ log' = Entered(api_key, 1).log
    /\ attempts' = 1
    /\ UNCHANGED <<api_key, env_key>>
    /\ UNCHANGED <<vars, svars, lvars>>

\* lines 198-229: the response; after a 401 the key of the environment, when it is
\* another one, is taken and get_gas_price calls itself
GasPriceResponse ==
    /\ gpc = "request"
    /\ \E r \in Responses :
          IF Retries(r, env_key, api_key)
          THEN /\ api_key' = env_key
               /\ gpc' = Entered(env_key, attempts + 1).gpc
               /\ returned' = Entered(env_key, attempts + 1).returned
               /\ sent_keys' = Entered(env_key, attempts + 1).sent_keys
               /\ log' = Entered(env_key, attempts + 1).log
               /\ attempts' = attempts + 1
          ELSE /\ returned' = CASE r = "200" -> "data"
                                [] r \in {"401", "500"} -> "error"
                                [] r \in {"200_not_json", "no_connection"} -> OnException
               /\ gpc' = "returned"
               /\ UNCHANGED <<api_key, sent_keys, log, attempts>>
    /\ UNCHANGED env_key
    /\ UNCHANGED <<vars, svars, lvars>>

\* the caller has the result
GasPriceDone ==
    /\ gpc = "returned"
    /\ gpc' = "idle"
    /\ attempts' = 0
    /\ sent_keys' = <<>>
    /\ returned' = None
    /\ UNCHANGED <<api_key, env_key, log>>
    /\ UNCHANGED <<vars, svars, lvars>>

\* get_transaction_history, lines 231-249: what it logs of its headers
HistoryCall ==
    /\ gpc = "idle"
    /\ HiddenRecord \notin log
    /\ log' = log \cup {HiddenRecord}
    /\ UNCHANGED <<api_key, env_key, gpc, attempts, sent_keys, returned>>
    /\ UNCHANGED <<vars, svars, lvars>>

ConnNext ==
    \/ NewConnection
    \/ SetEnv
    \/ GasPriceCall
    \/ GasPriceResponse
    \/ GasPriceDone
    \/ HistoryCall

\* requests.get returns or raises
ConnSpec ==
    /\ Init
    /\ [][ConnNext]_<<vars, others>>
    /\ WF_<<vars, others>>(GasPriceResponse)

(***************************************************************************)
(* Properties of get_gas_price and of the log                              *)
(***************************************************************************)
\* a call of get_gas_price that has ended has the data or an error payload, has sent
\* at most two requests, and has sent the second one with the key of the
\* environment, which was not the key of the first
GasPriceEnded ==
    gpc = "returned" =>
        /\ returned \in {"data", "error"}
        /\ attempts <= 2
        /\ Len(sent_keys) <= 2
        /\ attempts = 2 => /\ api_key = env_key
                                     /\ sent_keys # <<>>
                                     /\ sent_keys[1] # env_key

KeysInUse == (EnvKeys \cup ConfigKeys) \ {"", PLACEHOLDER}

\* C30: no record of the log holds an API key in full
C30_KeyNeverLoggedInFull ==
    \A rec \in log : \A k \in KeysInUse : ~Contains(rec, k)

\* C30: the records of __init__ and of get_transaction_history hold no key in full
\* unless get_gas_price has written it
C30_OnlyGasPriceShowsKey ==
    \A rec \in log : \A k \in KeysInUse :
        Contains(rec, k) => rec \in {PartialRecord(k), HeadersRecord(k)}

====
